---- MODULE Spec2Model ----
(***************************************************************************)
(* Session stores and retrieval front-ends of the GEN-AI-Notes POCs.       *)
(*                                                                         *)
(* The programs of the repository that are modelled follow. Each          *)
(* behaviour runs one of them (variable poc, fixed by Init):               *)
(*   "wm"  intermediate/poc-07-conversational-rag-with-memory              *)
(*         (MemoryManager, VectorStoreManager, RetrievalChain, main.py)    *)
(*   "sm"  intermediate/poc-07-conversational-rag-memory                   *)
(*         (Session, SessionManager, main.py /chat and /sessions)          *)
(*   "eng" intermediate/poc-07-conversational-rag-memory/app/rag_engine.py *)
(*         (ConversationalRAGEngine)                                       *)
(*   "p02" beginner/poc-02-simple-langchain-chatbot                        *)
(*         (SessionManager, LangChainChatbot.chat, main.py)                *)
(*   "p03" beginner/poc-03-document-qa-faiss (VectorStoreManager)          *)
(*   "p6t" intermediate/poc-06-rag-multi-document-types                    *)
(*         (VectorStoreManager)                                            *)
(*   "p06" intermediate/poc-06-rag-multiple-documents                      *)
(*         (EnhancedVectorStoreManager, MultiDocumentQAChain.ask)          *)
(*   "p7v" the with-memory VectorStoreManager and RetrievalChain, called   *)
(*         method by method                                                *)
(*   "crag" poc-07-conversational-rag-memory (ConversationalRAGChain)      *)
(*   "p01" beginner/poc-01-basic-fastapi-openai (main.py /chat)            *)
(*   "p05" beginner/poc-05-basic-apm-integration                           *)
(*         (metrics_middleware, APMMetrics), served from one event loop    *)
(*   "p5t" the same application called from parallel threads, as           *)
(*         tests/test_main.py test_concurrent_requests calls it            *)
(*   "p08" intermediate/poc-08-langchain-agents-tools                      *)
(*         (AgentExecutorService.execute_task)                             *)
(* A request handler is one atomic action where the handlers contain no    *)
(* await, so that the event loop runs each of them to completion. The      *)
(* requests of poc-05 are followed through the middleware step by step,    *)
(* those of "p5t" statement by statement of record_request.                *)
(***************************************************************************)
EXTENDS Integers, Sequences, FiniteSets, TLC

VARIABLES
    poc,                      \* which program this behaviour runs
    now,                      \* datetime.utcnow(), in minutes
    max_history_turns,        \* wm: Settings.max_history_turns
    enable_openai_generation, \* wm: enable_openai_generation and openai_api_key
    mm_sessions,              \* wm: MemoryManager._sessions
    vectorstore,              \* wm: VectorStoreManager._vectorstore
    session_timeout_minutes,  \* sm, p02: Settings.session_timeout_minutes
    max_history,              \* sm: SessionManager.max_history
    sm_sessions,              \* sm: SessionManager.sessions
    eng_documents,            \* eng: ConversationalRAGEngine._documents
    eng_sessions,             \* eng: ConversationalRAGEngine._sessions
    max_sessions,             \* p02: Settings.max_sessions
    p2_sessions,              \* p02: SessionManager.sessions
    pv_vectorstore,           \* p03, p6t, p06: the manager's self.vectorstore
    pv_disk,                  \* p03, p6t, p06: Settings.vector_store_path
    document_registry,        \* p06: the manager's self.document_registry
    metrics,                  \* p05: the APMMetrics instance _metrics
    threads,                  \* p05: the requests in flight, one per thread
    agent_settings,           \* p08: Settings.max_iterations, agent_verbose
    agent_executor,           \* p08: AgentExecutorService.agent_executor
    resp,                     \* what the last call returned to its caller and
                              \* logged; forgotten once time has passed
    log,                      \* history: every message appended to a session
                              \* since it was last created or deleted
    adds                      \* history: add_turn calls on a session since then

vars == <<poc, now, max_history_turns, enable_openai_generation, mm_sessions,
          vectorstore, session_timeout_minutes, max_history, sm_sessions,
          eng_documents, eng_sessions, max_sessions, p2_sessions,
          pv_vectorstore, pv_disk, document_registry, metrics, threads,
          agent_settings, agent_executor, resp, log, adds>>

wmVars  == <<max_history_turns, enable_openai_generation, mm_sessions, vectorstore>>
smVars  == <<max_history, sm_sessions>>
engVars == <<eng_documents, eng_sessions>>
p2Vars  == <<max_sessions, p2_sessions>>
pvVars  == <<pv_vectorstore, pv_disk, document_registry>>
svcVars == <<metrics, threads, agent_settings, agent_executor>>

----------------------------------------------------------------------------
(* Bounds of the model *)

\* largest configured max_history_turns
MaxTurns == 1
\* most turns held in the history of all sessions together
MaxAdds == 2
\* most chunks the vector index is followed to
MaxChunks == 2
\* last instant of the clock that is followed
MaxTime == 2
\* largest configured session_timeout_minutes
MaxTimeout == 1
\* largest configured max_history (messages kept per session, poc-07 memory)
MaxHistory == 2
\* largest configured max_sessions (poc-02)
MaxSessions == 2
\* most turns in a history make_query is given
MaxQueryTurns == 3
\* the top_k values requests carry (ChatRequest allows 1..10)
TopKs == {1, 2}

\* session identifiers: what uuid4 can return and what a client can send
Ids == {"s1", "s2"}
\* user messages
Questions == {"q1", "q2"}
\* user messages of the programs whose clock is followed
TimedQuestions == {"q1"}
\* chunk texts
Texts == {"t1"}
\* answers of the external LLM
LlmAnswers == {"llm"}

None == "None"

Min(a, b) == IF a <= b THEN a ELSE b

----------------------------------------------------------------------------
(* Python helpers *)

\* seq[-n:] for n >= 0: the last n elements; the whole list when n = 0
\* (-0 is 0, so the slice is seq[0:]) or when n >= len(seq)
PySuffix(seq, n) ==
    IF n = 0 \/ n >= Len(seq) THEN seq
    ELSE SubSeq(seq, Len(seq) - n + 1, Len(seq))

\* seq[:n] for n >= 0
PyPrefix(seq, n) == SubSeq(seq, 1, Min(n, Len(seq)))

\* del d[k]
DictDel(d, k) == [x \in DOMAIN d \ {k} |-> d[x]]

\* d[k] = v
DictSet(d, k, v) == [x \in DOMAIN d \cup {k} |-> IF x = k THEN v ELSE d[x]]

\* {}
EmptyDict == [x \in {} |-> None]

Msg(role, content) == [role |-> role, content |-> content]

RECURSIVE SumOver(_, _)
SumOver(f, S) ==
    IF S = {} THEN 0
    ELSE LET x == CHOOSE y \in S : TRUE IN f[x] + SumOver(f, S \ {x})

\* room is left for one more turn
RoomForTurn == SumOver(adds, Ids) < MaxAdds

\* the value a call returns to its caller: the HTTP status of a request
\* (0 for a method called directly) and the body or return value
Response(op, sid, status, val) ==
    [op |-> op, sid |-> sid, status |-> status, val |-> val]

----------------------------------------------------------------------------
(* poc-07 with-memory: MemoryManager (app/memory_manager.py) *)

\* the session record add_turn and ensure_session create; created_at is
\* written once and read by no operation, and is left out
EmptySession == [messages |-> <<>>]

\* uuid4(): any identifier; the code does not look whether it is in use
Uuid4 == Ids

mm_create_session(sessions, session_id) ==
    DictSet(sessions, session_id, EmptySession)

mm_ensure_session(sessions, session_id) ==
    IF session_id \notin DOMAIN sessions
    THEN DictSet(sessions, session_id, EmptySession)
    ELSE sessions

mm_session_exists(sessions, session_id) == session_id \in DOMAIN sessions

\* add_turn with the limit taken for a number of messages, not of turns
TrimTurns_messages(messages, turns) ==
    IF Len(messages) > turns THEN PySuffix(messages, turns) ELSE messages

\* the messages add_turn leaves in the session: both appended, then trimmed
\* with messages[-max_messages:] when longer than max_messages
TrimTurns(messages, turns) ==
    IF Len(messages) > turns * 2 THEN PySuffix(messages, turns * 2) ELSE messages

\* add_turn appending the assistant's message before the user's
mm_add_turn_swapped(sessions, turns, session_id, user_message, assistant_message) ==
    LET ensured  == mm_ensure_session(sessions, session_id)
        appended == ensured[session_id].messages
                        \o <<Msg("assistant", assistant_message),
                             Msg("user", user_message)>>
    IN  [ensured EXCEPT ![session_id].messages = TrimTurns(appended, turns)]

\* add_turn on one message list that every session shares
mm_add_turn_shared(sessions, turns, session_id, user_message, assistant_message) ==
    LET ensured == mm_ensure_session(sessions, session_id)
    IN  [s \in DOMAIN ensured |->
            [messages |-> TrimTurns(ensured[s].messages
                                       \o <<Msg("user", user_message),
                                            Msg("assistant", assistant_message)>>,
                                   turns)]]

mm_add_turn(sessions, turns, session_id, user_message, assistant_message) ==
    LET ensured  == mm_ensure_session(sessions, session_id)
        appended == ensured[session_id].messages
                        \o <<Msg("user", user_message),
                             Msg("assistant", assistant_message)>>
    IN  [ensured EXCEPT ![session_id].messages = TrimTurns(appended, turns)]

\* get_history handing out the stored list itself
mm_get_history_stored(sessions, session_id) ==
    IF session_id \notin DOMAIN sessions
    THEN [list |-> <<>>, alias |-> None]
    ELSE [list |-> sessions[session_id].messages, alias |-> session_id]

\* list(messages): a new list, which shares nothing with the stored one.
\* alias names the stored list the returned list is the same object as.
mm_get_history(sessions, session_id) ==
    IF session_id \notin DOMAIN sessions
    THEN [list |-> <<>>, alias |-> None]
    ELSE [list |-> sessions[session_id].messages, alias |-> None]

mm_get_message_count(sessions, session_id) ==
    IF session_id \notin DOMAIN sessions THEN 0
    ELSE Len(sessions[session_id].messages)

\* the returned flag and the store afterwards
mm_delete_session(sessions, session_id) ==
    IF session_id \in DOMAIN sessions
    THEN [ret |-> TRUE, sessions |-> DictDel(sessions, session_id)]
    ELSE [ret |-> FALSE, sessions |-> sessions]

mm_session_count(sessions) == Cardinality(DOMAIN sessions)

----------------------------------------------------------------------------
(* poc-07 with-memory: DocumentProcessor, VectorStoreManager, RetrievalChain *)

\* a request document: its source, the pieces split_text cuts its content
\* into (none for a content of white space only) and its metadata
DocumentInput(pieces) ==
    [source |-> "src", pieces |-> pieces, metadata |-> EmptyDict]

\* a request document whose metadata has keys of its own, "source" and
\* "chunk_id" among them
DocumentInputWithKeys(pieces) ==
    [source |-> "src", pieces |-> pieces,
     metadata |-> [source |-> "theirs", chunk_id |-> "mine"]]

\* the requests followed: one document of no or one chunk, two documents of
\* one chunk each, or one document of one chunk with metadata of its own
IndexRequests ==
    {<<DocumentInput(<<>>)>>, <<DocumentInput(<<"t1">>)>>,
     <<DocumentInput(<<"t1">>), DocumentInput(<<"t1">>)>>,
     <<DocumentInputWithKeys(<<"t1">>)>>}

RECURSIVE chunk_documents_from(_, _)
chunk_documents_from(inputs, doc_index) ==
    IF doc_index > Len(inputs) THEN <<>>
    ELSE [chunk_index \in 1..Len(inputs[doc_index].pieces) |->
             LET metadata == inputs[doc_index].metadata
             IN  [page_content |-> inputs[doc_index].pieces[chunk_index],
                  source       |-> IF "source" \in DOMAIN metadata
                                   THEN metadata.source
                                   ELSE inputs[doc_index].source,
                  chunk_id     |-> IF "chunk_id" \in DOMAIN metadata
                                   THEN metadata.chunk_id
                                   ELSE "doc" \o ToString(doc_index - 1)
                                           \o "_chunk"
                                           \o ToString(chunk_index - 1)]]
         \o chunk_documents_from(inputs, doc_index + 1)

chunk_documents(inputs) == chunk_documents_from(inputs, 1)

\* VectorStoreManager._vectorstore: None (built = FALSE), or a FAISS index
\* holding its chunks in insertion order
NoStore == [built |-> FALSE, chunks |-> <<>>]

Faiss(chunks) == [built |-> TRUE, chunks |-> chunks]

\* the returned count and the index afterwards
vs_add_documents(store, docs) ==
    IF docs = <<>> THEN [ret |-> 0, store |-> store]
    ELSE IF ~store.built THEN [ret |-> Len(docs), store |-> Faiss(docs)]
    ELSE [ret |-> Len(docs), store |-> Faiss(store.chunks \o docs)]

\* is_initialized answering for an index that was never built
vs_is_initialized_always(store) == TRUE

vs_is_initialized(store) == store.built

vs_total_chunks(store) == IF ~store.built THEN 0 ELSE Len(store.chunks)

\* similarity_search without the test for a missing index: the call on None
\* raises
vs_similarity_search_unguarded(store, k) ==
    IF ~store.built THEN {<<"AttributeError">>}
    ELSE LET m == Min(k, Len(store.chunks))
         IN  {[i \in 1..m |-> store.chunks[pick[i]]] :
                 pick \in {f \in [1..m -> 1..Len(store.chunks)] :
                              \A i, j \in 1..m : i /= j => f[i] /= f[j]}}

\* similarity_search that always fills k places, repeating chunks when the
\* index holds fewer
vs_similarity_search_padded(store, k) ==
    IF ~store.built THEN {<<>>}
    ELSE {[i \in 1..k |-> store.chunks[pick[i]]] :
             pick \in [1..k -> 1..Len(store.chunks)]}

\* what similarity_search can return: nothing without an index, else the
\* min(k, ntotal) nearest chunks; the embedding decides which and in which
\* order, so every choice of distinct chunks is possible
vs_similarity_search(store, k) ==
    IF ~store.built THEN {<<>>}
    ELSE LET m == Min(k, Len(store.chunks))
         IN  {[i \in 1..m |-> store.chunks[pick[i]]] :
                 pick \in {f \in [1..m -> 1..Len(store.chunks)] :
                              \A i, j \in 1..m : i /= j => f[i] /= f[j]}}

build_citations(docs) ==
    [i \in 1..Len(docs) |->
        [source |-> docs[i].source, chunk_id |-> docs[i].chunk_id,
         snippet |-> docs[i].page_content]]

InsufficientContext == "insufficient context"

fallback_answer(docs) ==
    IF docs = <<>> THEN InsufficientContext
    ELSE "grounded answer: " \o docs[1].page_content

\* the answers RetrievalChain.answer can give; "raise" when the LLM call fails
rc_answers(openai, docs) ==
    IF openai THEN LlmAnswers \cup {"raise"} ELSE {fallback_answer(docs)}

----------------------------------------------------------------------------
(* poc-07 with-memory: the handlers of app/main.py and the methods tests call *)

InitCommon ==
    /\ now = 0
    /\ resp = Response("init", None, 0, None)
    /\ log = [s \in Ids |-> <<>>]
    /\ adds = [s \in Ids |-> 0]

InitWmIdle ==
    /\ max_history_turns = 0
    /\ enable_openai_generation = FALSE
    /\ mm_sessions = EmptyDict
    /\ vectorstore = NoStore

InitSmIdle ==
    /\ max_history = 0
    /\ sm_sessions = EmptyDict

InitEngIdle ==
    /\ eng_documents = <<>>
    /\ eng_sessions = EmptyDict

InitP2Idle ==
    /\ max_sessions = 0
    /\ p2_sessions = EmptyDict

\* the directory Settings.vector_store_path: absent, or holding the index
\* files save_local wrote (index.built) and, in poc-06, the registry file
\* document_registry.json (registry.saved)
NoRegistryFile == [saved |-> FALSE, docs |-> EmptyDict]

RegistryFile(docs) == [saved |-> TRUE, docs |-> docs]

NoDisk == [exists |-> FALSE, index |-> NoStore, registry |-> NoRegistryFile]

InitPvIdle ==
    /\ pv_vectorstore = NoStore
    /\ pv_disk = NoDisk
    /\ document_registry = EmptyDict

\* the programs below that are not running: no metrics, no request in
\* flight, no agent
InitSvcIdle ==
    /\ metrics = [total_requests |-> 0, total_response_time_ms |-> 0,
                  error_count |-> 0]
    /\ threads = <<>>
    /\ agent_settings = [max_iterations |-> 0, agent_verbose |-> FALSE]
    /\ agent_executor = [max_iterations |-> 0, verbose |-> FALSE]

InitWM ==
    /\ poc = "wm"
    /\ InitCommon
    /\ InitSvcIdle
    /\ max_history_turns \in 0..MaxTurns
    /\ enable_openai_generation \in BOOLEAN
    /\ mm_sessions = EmptyDict
    /\ vectorstore = NoStore
    /\ session_timeout_minutes = 0
    /\ InitSmIdle /\ InitEngIdle /\ InitP2Idle /\ InitPvIdle

\* POST /sessions
WM_CreateSession ==
    /\ poc = "wm"
    /\ \E session_id \in Uuid4 :
        /\ mm_sessions' = mm_create_session(mm_sessions, session_id)
        /\ resp' = Response("create_session", session_id, 200, None)
        /\ log' = [log EXCEPT ![session_id] = <<>>]
        /\ adds' = [adds EXCEPT ![session_id] = 0]
    /\ UNCHANGED <<poc, svcVars, pvVars, now, max_history_turns, enable_openai_generation,
                   vectorstore, session_timeout_minutes, smVars, engVars, p2Vars>>

\* GET /sessions/{session_id}
WM_GetSession ==
    /\ poc = "wm"
    /\ \E session_id \in Ids :
        resp' = Response("get_session", session_id, 200,
                    [exists |-> mm_session_exists(mm_sessions, session_id),
                     message_count |-> mm_get_message_count(mm_sessions, session_id)])
    /\ UNCHANGED <<poc, svcVars, pvVars, now, wmVars, session_timeout_minutes, smVars, engVars,
                   p2Vars, log, adds>>

\* DELETE /sessions/{session_id}; val is what delete_session returned (the
\* body always reports exists = False)
WM_DeleteSession ==
    /\ poc = "wm"
    /\ \E session_id \in Ids :
        LET r == mm_delete_session(mm_sessions, session_id)
        IN  /\ mm_sessions' = r.sessions
            /\ resp' = Response("delete_session", session_id, 200, r.ret)
            /\ log' = [log EXCEPT ![session_id] = <<>>]
            /\ adds' = [adds EXCEPT ![session_id] = 0]
    /\ UNCHANGED <<poc, svcVars, pvVars, now, max_history_turns, enable_openai_generation,
                   vectorstore, session_timeout_minutes, smVars, engVars, p2Vars>>

\* POST /documents/index
WM_IndexDocuments ==
    /\ poc = "wm"
    /\ \E request \in IndexRequests :
        LET chunks == chunk_documents(request)
            r      == vs_add_documents(vectorstore, chunks)
        IN  /\ vs_total_chunks(r.store) <= MaxChunks
            /\ vectorstore' = r.store
            /\ resp' = IF r.ret = 0
                       THEN Response("index", None, 400, None)
                       ELSE Response("index", None, 200,
                                [chunks_indexed |-> r.ret,
                                 total_chunks |-> vs_total_chunks(r.store)])
    /\ UNCHANGED <<poc, svcVars, pvVars, now, max_history_turns, enable_openai_generation,
                   mm_sessions, session_timeout_minutes, smVars, engVars, p2Vars,
                   log, adds>>

\* POST /chat
WM_Chat ==
    /\ poc = "wm"
    /\ \E session_id \in Ids, message \in Questions, top_k \in TopKs :
        IF ~vs_is_initialized(vectorstore)
        THEN /\ resp' = Response("chat", session_id, 400, None)
             /\ UNCHANGED <<mm_sessions, log, adds>>
        ELSE LET history == mm_get_history(mm_sessions, session_id)
             IN  \E docs \in vs_similarity_search(vectorstore, top_k) :
                 \E answer \in rc_answers(enable_openai_generation, docs) :
                    IF answer = "raise"
                    THEN /\ resp' = Response("chat", session_id, 500, None)
                         /\ UNCHANGED <<mm_sessions, log, adds>>
                    ELSE LET turn == <<Msg("user", message), Msg("assistant", answer)>>
                             \* history is read after add_turn: a list that is
                             \* the stored one has both messages by then
                             seen == IF history.alias = None THEN history.list
                                     ELSE history.list \o turn
                         IN  /\ RoomForTurn
                             /\ mm_sessions' = mm_add_turn(mm_sessions, max_history_turns,
                                                   session_id, message, answer)
                             /\ resp' = Response("chat", session_id, 200,
                                   [answer |-> answer,
                                    citations |-> build_citations(docs),
                                    used_history_turns |->
                                        Min(Len(seen) \div 2, max_history_turns)])
                             /\ log' = [log EXCEPT ![session_id] = @ \o turn]
                             /\ adds' = [adds EXCEPT ![session_id] = @ + 1]
    /\ UNCHANGED <<poc, svcVars, pvVars, now, max_history_turns, enable_openai_generation,
                   vectorstore, session_timeout_minutes, smVars, engVars, p2Vars>>

\* MemoryManager.get_history called directly
WM_GetHistory ==
    /\ poc = "wm"
    /\ \E session_id \in Ids :
        resp' = Response("get_history", session_id, 0,
                    mm_get_history(mm_sessions, session_id))
    /\ UNCHANGED <<poc, svcVars, pvVars, now, wmVars, session_timeout_minutes, smVars, engVars,
                   p2Vars, log, adds>>

\* the caller appends to the list get_history gave it; a stored list that is
\* the same object changes with it
WM_MutateResult ==
    /\ poc = "wm"
    /\ resp.op = "get_history"
    /\ LET junk == Msg("user", "junk")
       IN  /\ resp' = [resp EXCEPT !.op = "mutated", !.val.list = Append(@, junk)]
           /\ mm_sessions' =
                 IF resp.val.alias \in DOMAIN mm_sessions
                 THEN [mm_sessions EXCEPT ![resp.val.alias].messages = Append(@, junk)]
                 ELSE mm_sessions
    /\ UNCHANGED <<poc, svcVars, pvVars, now, max_history_turns, enable_openai_generation,
                   vectorstore, session_timeout_minutes, smVars, engVars, p2Vars,
                   log, adds>>

\* MemoryManager.clear, as the tests' setup_function calls it
WM_MemoryClear ==
    /\ poc = "wm"
    /\ mm_sessions' = EmptyDict
    /\ resp' = Response("memory_clear", None, 0, None)
    /\ log' = [s \in Ids |-> <<>>]
    /\ adds' = [s \in Ids |-> 0]
    /\ UNCHANGED <<poc, svcVars, pvVars, now, max_history_turns, enable_openai_generation,
                   vectorstore, session_timeout_minutes, smVars, engVars, p2Vars>>

\* VectorStoreManager.clear
WM_VectorstoreClear ==
    /\ poc = "wm"
    /\ vectorstore' = NoStore
    /\ resp' = Response("vectorstore_clear", None, 0, None)
    /\ UNCHANGED <<poc, svcVars, pvVars, now, max_history_turns, enable_openai_generation,
                   mm_sessions, session_timeout_minutes, smVars, engVars, p2Vars,
                   log, adds>>

NextWM ==
    \/ WM_CreateSession \/ WM_GetSession \/ WM_DeleteSession
    \/ WM_IndexDocuments \/ WM_Chat \/ WM_GetHistory
    \/ WM_MutateResult \/ WM_MemoryClear \/ WM_VectorstoreClear

SpecWM == InitWM /\ [][NextWM]_vars

----------------------------------------------------------------------------
(* poc-07 memory: Session and SessionManager (app/session_manager.py) *)

\* Session.__init__: no messages, an empty LangChain memory, last_activity
\* the time of creation.  created_at, the name and the metadata are written
\* once and decide nothing, and are left out, like the time stamp of a message.
NewSession(t) == [messages |-> <<>>, memory |-> <<>>, last_activity |-> t]

\* Session._trim_history on the two lists
TrimHistory(session, limit) ==
    IF Len(session.messages) > limit
    THEN [session EXCEPT
            !.messages = PySuffix(session.messages, limit),
            !.memory = IF Len(session.memory) > limit
                       THEN PySuffix(session.memory, limit)
                       ELSE session.memory]
    ELSE session

\* Session.add_message at time t, for the roles user and assistant
add_message(session, limit, role, content, t) ==
    TrimHistory([session EXCEPT
                    !.messages = Append(@, Msg(role, content)),
                    !.last_activity = t,
                    !.memory = Append(@, Msg(IF role = "user" THEN "human" ELSE "ai",
                                             content))],
                limit)

\* is_expired with >= for >
is_expired_inclusive(session, timeout_minutes, t) ==
    (t - session.last_activity) >= timeout_minutes

\* Session.is_expired at time t
is_expired(session, timeout_minutes, t) ==
    (t - session.last_activity) > timeout_minutes

sm_create_session(sessions, session_id, t) ==
    DictSet(sessions, session_id, NewSession(t))

sm_delete_session(sessions, session_id) ==
    IF session_id \in DOMAIN sessions
    THEN [ret |-> TRUE, sessions |-> DictDel(sessions, session_id)]
    ELSE [ret |-> FALSE, sessions |-> sessions]

\* get_session without the expiry check
sm_get_session_unchecked(sessions, session_id, timeout_minutes, t) ==
    [found |-> session_id \in DOMAIN sessions, expired |-> FALSE,
     sessions |-> sessions]

\* the session handed back (found = FALSE for None), whether "has expired"
\* was logged, and the store afterwards
sm_get_session(sessions, session_id, timeout_minutes, t) ==
    IF session_id \in DOMAIN sessions
       /\ is_expired(sessions[session_id], timeout_minutes, t)
    THEN [found |-> FALSE, expired |-> TRUE,
          sessions |-> sm_delete_session(sessions, session_id).sessions]
    ELSE [found |-> session_id \in DOMAIN sessions, expired |-> FALSE,
          sessions |-> sessions]

\* a sweep that counts the expired sessions and deletes none
cleanup_expired_sessions_kept(sessions, timeout_minutes, t) ==
    LET expired == {session_id \in DOMAIN sessions :
                       is_expired(sessions[session_id], timeout_minutes, t)}
    IN  [ret |-> Cardinality(expired), sessions |-> sessions]

\* the number of sessions removed and the store afterwards
cleanup_expired_sessions(sessions, timeout_minutes, t) ==
    LET expired == {session_id \in DOMAIN sessions :
                       is_expired(sessions[session_id], timeout_minutes, t)}
    IN  [ret |-> Cardinality(expired),
         sessions |-> [x \in DOMAIN sessions \ expired |-> sessions[x]]]

\* Session.get_session_info
get_session_info(sessions, session_id) ==
    [session_id |-> session_id,
     last_activity |-> sessions[session_id].last_activity,
     message_count |-> Len(sessions[session_id].messages)]

\* the SessionInfo of every session left after the sweep (the order of the
\* list is the dict's and is not followed), the number of sessions the sweep
\* logged as cleaned up, and the store afterwards
sm_list_sessions(sessions, timeout_minutes, t) ==
    LET swept == cleanup_expired_sessions(sessions, timeout_minutes, t)
    IN  [ret |-> {get_session_info(swept.sessions, x) : x \in DOMAIN swept.sessions},
         cleaned_up |-> swept.ret,
         sessions |-> swept.sessions]

sm_get_active_session_count(sessions, timeout_minutes, t) ==
    LET swept == cleanup_expired_sessions(sessions, timeout_minutes, t)
    IN  [ret |-> Cardinality(DOMAIN swept.sessions),
         cleaned_up |-> swept.ret,
         sessions |-> swept.sessions]

\* what ConversationalRAGChain.ask gives main.chat: an answer, or "raise"
\* when the LLM call or the retrieval fails
ask_outcomes == LlmAnswers \cup {"raise"}

----------------------------------------------------------------------------
(* poc-07 memory: the handlers of app/main.py *)

InitSM ==
    /\ poc = "sm"
    /\ InitCommon
    /\ InitSvcIdle
    /\ session_timeout_minutes \in 0..MaxTimeout
    /\ max_history \in 0..MaxHistory
    /\ sm_sessions = EmptyDict
    /\ InitWmIdle /\ InitEngIdle /\ InitP2Idle /\ InitPvIdle

\* time passes
Tick ==
    /\ poc \in {"sm", "p02"}
    /\ now < MaxTime
    /\ now' = now + 1
    /\ resp' = Response("tick", None, 0, None)
    /\ UNCHANGED <<poc, svcVars, pvVars, wmVars, session_timeout_minutes, smVars, engVars, p2Vars,
                   log, adds>>

\* POST /sessions
SM_CreateSession ==
    /\ poc = "sm"
    /\ \E session_id \in Uuid4 :
        /\ sm_sessions' = sm_create_session(sm_sessions, session_id, now)
        /\ resp' = Response("create_session", session_id, 200, None)
        /\ log' = [log EXCEPT ![session_id] = <<>>]
        /\ adds' = [adds EXCEPT ![session_id] = 0]
    /\ UNCHANGED <<poc, svcVars, pvVars, now, wmVars, session_timeout_minutes, max_history,
                   engVars, p2Vars>>

\* the history of the sessions that are gone is dropped
Forget(h, kept, empty) == [s \in Ids |-> IF s \in kept THEN h[s] ELSE empty]

\* GET /sessions
SM_ListSessions ==
    /\ poc = "sm"
    /\ LET r == sm_list_sessions(sm_sessions, session_timeout_minutes, now)
       IN  /\ sm_sessions' = r.sessions
           /\ resp' = Response("list_sessions", None, 200,
                         [sessions |-> r.ret, total_sessions |-> Cardinality(r.ret),
                          cleaned_up |-> r.cleaned_up])
           /\ log' = Forget(log, DOMAIN r.sessions, <<>>)
           /\ adds' = Forget(adds, DOMAIN r.sessions, 0)
    /\ UNCHANGED <<poc, svcVars, pvVars, now, wmVars, session_timeout_minutes, max_history,
                   engVars, p2Vars>>

\* GET / and GET /health
SM_Health ==
    /\ poc = "sm"
    /\ LET r == sm_get_active_session_count(sm_sessions, session_timeout_minutes, now)
       IN  /\ sm_sessions' = r.sessions
           /\ resp' = Response("health", None, 200,
                         [active_sessions |-> r.ret, cleaned_up |-> r.cleaned_up])
           /\ log' = Forget(log, DOMAIN r.sessions, <<>>)
           /\ adds' = Forget(adds, DOMAIN r.sessions, 0)
    /\ UNCHANGED <<poc, svcVars, pvVars, now, wmVars, session_timeout_minutes, max_history,
                   engVars, p2Vars>>

\* GET /sessions/{session_id}/history
SM_GetSessionHistory ==
    /\ poc = "sm"
    /\ \E session_id \in Ids :
        LET r == sm_get_session(sm_sessions, session_id, session_timeout_minutes, now)
        IN  /\ sm_sessions' = r.sessions
            /\ resp' = IF ~r.found
                       THEN Response("history", session_id, 404,
                                     [expired |-> r.expired])
                       ELSE Response("history", session_id, 200,
                                [messages |-> r.sessions[session_id].messages,
                                 total_messages |->
                                     Len(r.sessions[session_id].messages)])
            /\ log' = Forget(log, DOMAIN r.sessions, <<>>)
            /\ adds' = Forget(adds, DOMAIN r.sessions, 0)
    /\ UNCHANGED <<poc, svcVars, pvVars, now, wmVars, session_timeout_minutes, max_history,
                   engVars, p2Vars>>

\* DELETE /sessions/{session_id}
SM_DeleteSession ==
    /\ poc = "sm"
    /\ \E session_id \in Ids :
        LET r == sm_delete_session(sm_sessions, session_id)
        IN  /\ sm_sessions' = r.sessions
            /\ resp' = Response("delete_session", session_id,
                                IF r.ret THEN 200 ELSE 404, r.ret)
            /\ log' = [log EXCEPT ![session_id] = <<>>]
            /\ adds' = [adds EXCEPT ![session_id] = 0]
    /\ UNCHANGED <<poc, svcVars, pvVars, now, wmVars, session_timeout_minutes, max_history,
                   engVars, p2Vars>>

\* POST /chat
SM_Chat ==
    /\ poc = "sm"
    /\ \E session_id \in Ids, message \in TimedQuestions, outcome \in ask_outcomes :
        LET r == sm_get_session(sm_sessions, session_id, session_timeout_minutes, now)
        IN  IF ~r.found
            THEN /\ sm_sessions' = r.sessions
                 /\ resp' = Response("chat", session_id, 404, [expired |-> r.expired])
                 /\ log' = Forget(log, DOMAIN r.sessions, <<>>)
                 /\ adds' = Forget(adds, DOMAIN r.sessions, 0)
            ELSE LET asked == add_message(r.sessions[session_id], max_history,
                                          "user", message, now)
                 IN  /\ RoomForTurn
                     /\ adds' = [adds EXCEPT ![session_id] = @ + 1]
                     /\ IF outcome = "raise"
                        THEN /\ sm_sessions' = [r.sessions EXCEPT ![session_id] = asked]
                             /\ resp' = Response("chat", session_id, 500, None)
                             /\ log' = [log EXCEPT ![session_id] =
                                           Append(@, Msg("user", message))]
                        ELSE /\ sm_sessions' =
                                   [r.sessions EXCEPT ![session_id] =
                                       add_message(asked, max_history, "assistant",
                                                   outcome, now)]
                             /\ resp' = Response("chat", session_id, 200,
                                                 [message |-> outcome])
                             /\ log' = [log EXCEPT ![session_id] =
                                           @ \o <<Msg("user", message),
                                                  Msg("assistant", outcome)>>]
    /\ UNCHANGED <<poc, svcVars, pvVars, now, wmVars, session_timeout_minutes, max_history,
                   engVars, p2Vars>>

NextSM ==
    \/ Tick \/ SM_CreateSession \/ SM_ListSessions \/ SM_Health
    \/ SM_GetSessionHistory \/ SM_DeleteSession \/ SM_Chat

SpecSM == InitSM /\ [][NextSM]_vars

----------------------------------------------------------------------------
(* poc-07 memory: ConversationalRAGEngine (app/rag_engine.py) *)

\* the documents ingest is given, each with the terms of text.lower().split();
\* the blank one is white space only
BlankDoc == [text |-> " ", terms |-> {}]
EngineDocs == {[text |-> "fastapi framework", terms |-> {"fastapi", "framework"}],
               [text |-> "vector search", terms |-> {"vector", "search"}],
               BlankDoc}

\* the questions asked, with their terms
EngineQuestions == {[text |-> "fastapi search", terms |-> {"fastapi", "search"}],
                    [text |-> "quantum", terms |-> {"quantum"}]}

\* the top_k values ask and _retrieve are called with
EngineTopKs == {-1, 0, 1, 2}

\* seq[:n] for any integer n: all but the last -n elements when n < 0
PySliceTo(seq, n) ==
    IF n >= 0 THEN PyPrefix(seq, n)
    ELSE SubSeq(seq, 1, IF Len(seq) + n > 0 THEN Len(seq) + n ELSE 0)

\* the number of documents afterwards and the documents afterwards
ingest(documents, given) ==
    LET cleaned == SelectSeq(given, LAMBDA doc : doc /= BlankDoc)
    IN  [ret |-> Len(documents \o cleaned), documents |-> documents \o cleaned]

Score(question, doc) == Cardinality(question.terms \cap doc.terms)

\* list.sort(key = score, reverse = True): stable, so documents of one score
\* keep their order
RECURSIVE SortedByScore(_, _, _)
SortedByScore(documents, question, score) ==
    IF score < 0 THEN <<>>
    ELSE SelectSeq(documents, LAMBDA doc : Score(question, doc) = score)
         \o SortedByScore(documents, question, score - 1)

retrieve(documents, question, top_k) ==
    SelectSeq(PySliceTo(SortedByScore(documents, question, Cardinality(question.terms)), top_k),
           LAMBDA doc : Score(question, doc) > 0)

\* ask on a non-empty index: the response and the sessions afterwards.
\* self._sessions is a defaultdict: reading an absent session creates it.
engine_ask(documents, sessions, session_id, question, top_k) ==
    LET context == retrieve(documents, question, top_k)
        history == IF session_id \in DOMAIN sessions THEN sessions[session_id]
                   ELSE <<>>
        prior   == IF history /= <<>>
                   THEN " Previous turn was about: " \o history[Len(history)].question
                   ELSE ""
        answer  == "Based on indexed knowledge:" \o prior \o " "
                       \o (IF context /= <<>> THEN context[1].text
                           ELSE "No direct match found.")
        entry   == [question |-> question.text, answer |-> answer]
    IN  [ret |-> [answer |-> answer, context_used |-> context,
                  chat_history_size |-> Len(history) + 1],
         sessions |-> DictSet(sessions, session_id, Append(history, entry))]

InitEng ==
    /\ poc = "eng"
    /\ InitCommon
    /\ InitSvcIdle
    /\ eng_documents = <<>>
    /\ eng_sessions = EmptyDict
    /\ session_timeout_minutes = 0
    /\ InitWmIdle /\ InitSmIdle /\ InitP2Idle /\ InitPvIdle

\* ConversationalRAGEngine.ingest
Eng_Ingest ==
    /\ poc = "eng"
    /\ \E given \in {<<d>> : d \in EngineDocs} \cup
                    {<<d, e>> : d \in EngineDocs, e \in {BlankDoc}} :
        LET r == ingest(eng_documents, given)
        IN  /\ r.ret <= MaxChunks
            /\ eng_documents' = r.documents
            /\ resp' = Response("ingest", None, 0, r.ret)
    /\ UNCHANGED <<poc, svcVars, pvVars, now, wmVars, session_timeout_minutes, smVars, eng_sessions,
                   p2Vars, log, adds>>

\* ConversationalRAGEngine.ask
Eng_Ask ==
    /\ poc = "eng"
    /\ \E session_id \in Ids, question \in EngineQuestions, top_k \in EngineTopKs :
        IF eng_documents = <<>>
        THEN /\ resp' = Response("ask", session_id, 0, [error |-> "ValueError"])
             /\ UNCHANGED <<eng_sessions, adds>>
        ELSE LET r == engine_ask(eng_documents, eng_sessions, session_id,
                                 question, top_k)
             IN  /\ RoomForTurn
                 /\ eng_sessions' = r.sessions
                 /\ resp' = Response("ask", session_id, 0, r.ret)
                 /\ adds' = [adds EXCEPT ![session_id] = @ + 1]
    /\ UNCHANGED <<poc, svcVars, pvVars, now, wmVars, session_timeout_minutes, smVars, eng_documents,
                   p2Vars, log>>

\* ConversationalRAGEngine._retrieve, called as the tests call it
Eng_Retrieve ==
    /\ poc = "eng"
    /\ \E question \in EngineQuestions, top_k \in EngineTopKs :
        resp' = Response("_retrieve", None, 0,
                         [question |-> question, top_k |-> top_k,
                          context |-> retrieve(eng_documents, question, top_k)])
    /\ UNCHANGED <<poc, svcVars, pvVars, now, wmVars, session_timeout_minutes,
                   smVars, engVars, p2Vars, log, adds>>

\* ConversationalRAGEngine.clear
Eng_Clear ==
    /\ poc = "eng"
    /\ eng_documents' = <<>>
    /\ eng_sessions' = EmptyDict
    /\ resp' = Response("clear", None, 0, None)
    /\ adds' = [s \in Ids |-> 0]
    /\ UNCHANGED <<poc, svcVars, pvVars, now, wmVars, session_timeout_minutes, smVars, p2Vars, log>>

NextEng == Eng_Ingest \/ Eng_Ask \/ Eng_Retrieve \/ Eng_Clear

SpecEng == InitEng /\ [][NextEng]_vars

----------------------------------------------------------------------------
(* poc-02: SessionManager (app/session_manager.py) and LangChainChatbot.chat *)

\* SessionManager._cleanup_old_sessions at time t
cleanup_old_sessions(sessions, limit, timeout_minutes, t) ==
    IF Cardinality(DOMAIN sessions) >= limit
    THEN LET expired_sessions ==
                 {session_id \in DOMAIN sessions :
                     t - sessions[session_id].last_activity > timeout_minutes}
         IN  [x \in DOMAIN sessions \ expired_sessions |-> sessions[x]]
    ELSE sessions

\* the store after get_or_create_session; the memory handed back is the
\* session's.  created_at is written once and decides nothing, and is left out.
get_or_create_session(sessions, limit, timeout_minutes, session_id, t) ==
    LET cleaned == cleanup_old_sessions(sessions, limit, timeout_minutes, t)
    IN  IF session_id \notin DOMAIN cleaned
        THEN DictSet(cleaned, session_id,
                     [memory |-> <<>>, last_activity |-> t, message_count |-> 0])
        ELSE [cleaned EXCEPT ![session_id].last_activity = t]

update_session_activity(sessions, session_id, t) ==
    IF session_id \in DOMAIN sessions
    THEN [sessions EXCEPT ![session_id].last_activity = t,
                          ![session_id].message_count = @ + 1]
    ELSE sessions

\* clear_session popping the key and reporting success whatever it found
p2_clear_session_always(sessions, session_id) ==
    [ret |-> TRUE, sessions |-> DictDel(sessions, session_id)]

p2_clear_session(sessions, session_id) ==
    IF session_id \in DOMAIN sessions
    THEN [ret |-> TRUE, sessions |-> DictDel(sessions, session_id)]
    ELSE [ret |-> FALSE, sessions |-> sessions]

\* None (found = FALSE) or the SessionInfo
p2_get_session_info(sessions, session_id) ==
    IF session_id \notin DOMAIN sessions THEN [found |-> FALSE]
    ELSE [found |-> TRUE,
          message_count |-> sessions[session_id].message_count,
          last_activity |-> sessions[session_id].last_activity]

\* the store after LangChainChatbot.chat, whose ConversationChain saves the
\* two messages to the session's memory once the LLM has answered
chatbot_chat(sessions, limit, timeout_minutes, session_id, message, outcome, t) ==
    LET got == get_or_create_session(sessions, limit, timeout_minutes, session_id, t)
    IN  IF outcome = "raise" THEN got
        ELSE update_session_activity(
                 [got EXCEPT ![session_id].memory =
                     @ \o <<Msg("human", message), Msg("ai", outcome)>>],
                 session_id, t)

InitP2 ==
    /\ poc = "p02"
    /\ InitCommon
    /\ InitSvcIdle
    /\ session_timeout_minutes \in 0..MaxTimeout
    /\ max_sessions \in 1..MaxSessions
    /\ p2_sessions = EmptyDict
    /\ InitWmIdle /\ InitSmIdle /\ InitEngIdle /\ InitPvIdle

\* POST /chat
P2_Chat ==
    /\ poc = "p02"
    /\ \E session_id \in Ids, message \in TimedQuestions, outcome \in ask_outcomes :
        LET after == chatbot_chat(p2_sessions, max_sessions, session_timeout_minutes,
                                  session_id, message, outcome, now)
        IN  /\ outcome /= "raise" => RoomForTurn
            /\ p2_sessions' = after
            /\ resp' = IF outcome = "raise"
                       THEN Response("chat", session_id, 500, None)
                       ELSE Response("chat", session_id, 200,
                                [message |-> outcome,
                                 conversation_history |-> after[session_id].memory])
            /\ adds' = [s \in Ids |->
                          IF s \notin DOMAIN after THEN 0
                          ELSE IF s = session_id
                          THEN Len(after[s].memory) \div 2
                          ELSE adds[s]]
    /\ UNCHANGED <<poc, svcVars, pvVars, now, wmVars, session_timeout_minutes, smVars, engVars,
                   max_sessions, log>>

\* GET /session/{session_id}
P2_GetSession ==
    /\ poc = "p02"
    /\ \E session_id \in Ids :
        LET info == p2_get_session_info(p2_sessions, session_id)
        IN  resp' = Response("get_session", session_id,
                             IF info.found THEN 200 ELSE 404, info)
    /\ UNCHANGED <<poc, svcVars, pvVars, now, wmVars, session_timeout_minutes, smVars, engVars,
                   p2Vars, log, adds>>

\* POST /session/clear
P2_ClearSession ==
    /\ poc = "p02"
    /\ \E session_id \in Ids :
        LET r == p2_clear_session(p2_sessions, session_id)
        IN  /\ p2_sessions' = r.sessions
            /\ resp' = Response("clear_session", session_id,
                                IF r.ret THEN 200 ELSE 404, r.ret)
            /\ adds' = [adds EXCEPT ![session_id] = 0]
    /\ UNCHANGED <<poc, svcVars, pvVars, now, wmVars, session_timeout_minutes, smVars, engVars,
                   max_sessions, log>>

\* GET / and GET /health
P2_Health ==
    /\ poc = "p02"
    /\ resp' = Response("health", None, 200,
                        [active_sessions |-> Cardinality(DOMAIN p2_sessions)])
    /\ UNCHANGED <<poc, svcVars, pvVars, now, wmVars, session_timeout_minutes, smVars, engVars,
                   p2Vars, log, adds>>

NextP2 == Tick \/ P2_Chat \/ P2_GetSession \/ P2_ClearSession \/ P2_Health

SpecP2 == InitP2 /\ [][NextP2]_vars

----------------------------------------------------------------------------
(* poc-03 and poc-06 multi-document-types: VectorStoreManager, the FAISS    *)
(* index that is saved under Settings.vector_store_path                     *)

\* most chunks an index of these managers is followed to
MaxIndexed == 4

\* a metadata value: a scalar, or a list of scalars
Scalar(x) == [kind |-> "scalar", items |-> <<x>>]

List(xs) == [kind |-> "list", items |-> xs]

\* langchain Document
Document(text, metadata) == [page_content |-> text, metadata |-> metadata]

PdfChunk == Document("t1", [file_type |-> Scalar("pdf"), tags |-> List(<<"a", "b">>)])

TxtChunk == Document("t1", [file_type |-> Scalar("txt")])

MdChunk == Document("t2", [file_type |-> Scalar("txt"), tags |-> Scalar("a")])

\* the chunk lists add_documents is given: none, one chunk, two chunks
Uploads == {<<>>, <<PdfChunk>>, <<TxtChunk, MdChunk>>}

\* the non-empty prefixes of a list and the empty one
Prefixes(seq) == {SubSeq(seq, 1, n) : n \in 0..Len(seq)}

\* _load_or_create_vectorstore / _load_existing_store: the saved index when
\* the path exists and load_local succeeds, None when the path is absent or
\* load_local raises (no index files in the directory)
pv_load(disk) ==
    IF disk.exists /\ disk.index.built THEN disk.index ELSE NoStore

\* save: the directory afterwards
pv_save(store, disk) ==
    IF store.built THEN [disk EXCEPT !.exists = TRUE, !.index = store]
    ELSE disk

\* add_documents that leaves the files as they were
pv_add_documents_unsaved(store, disk, documents) ==
    IF documents = <<>> THEN [ret |-> 0, store |-> store, disk |-> disk]
    ELSE [ret |-> Len(documents), disk |-> disk,
          store |-> IF ~store.built THEN Faiss(documents)
                    ELSE Faiss(store.chunks \o documents)]

\* add_documents: the count returned, the index and the directory afterwards
pv_add_documents(store, disk, documents) ==
    IF documents = <<>> THEN [ret |-> 0, store |-> store, disk |-> disk]
    ELSE LET added == IF ~store.built THEN Faiss(documents)
                      ELSE Faiss(store.chunks \o documents)
         IN  [ret |-> Len(documents), store |-> added,
              disk |-> pv_save(added, disk)]

pv_get_document_count(store) == IF ~store.built THEN 0 ELSE Len(store.chunks)

pv_is_initialized(store) == store.built /\ pv_get_document_count(store) > 0

\* poc-03 similarity_search: the k nearest chunks in ascending distance; a
\* score_threshold keeps those within it, a prefix of them
pv_similarity_search(store, k, with_threshold) ==
    IF ~store.built THEN {<<>>}
    ELSE IF with_threshold
         THEN UNION {Prefixes(r) : r \in vs_similarity_search(store, k)}
         ELSE vs_similarity_search(store, k)

\* poc-06 multi-document-types similarity_search: with a metadata_filter the
\* library returns chunks it finds to match, at most k of them
t6_similarity_search(store, k, with_filter) ==
    IF ~store.built THEN {<<>>}
    ELSE IF with_filter
         THEN UNION {Prefixes(r) : r \in vs_similarity_search(store, k)}
         ELSE vs_similarity_search(store, k)

\* clear that leaves the files in place
pv_clear_memory_only(store, disk) ==
    [store |-> NoStore, disk |-> disk, removed |-> FALSE]

\* clear: the index and the directory afterwards, and whether there was a
\* directory to remove
pv_clear(store, disk) ==
    [store |-> NoStore, disk |-> IF disk.exists THEN NoDisk ELSE disk,
     removed |-> disk.exists]

PvPocs == {"p03", "p6t"}

InitPV ==
    /\ poc \in PvPocs
    /\ InitCommon
    /\ InitSvcIdle
    /\ session_timeout_minutes = 0
    /\ pv_disk = NoDisk
    /\ pv_vectorstore = pv_load(pv_disk)
    /\ document_registry = EmptyDict
    /\ InitWmIdle /\ InitSmIdle /\ InitEngIdle /\ InitP2Idle

\* VectorStoreManager.add_documents
PV_AddDocuments ==
    /\ poc \in PvPocs
    /\ \E documents \in Uploads :
        /\ pv_get_document_count(pv_vectorstore) + Len(documents) <= MaxIndexed
        /\ LET r == pv_add_documents(pv_vectorstore, pv_disk, documents)
           IN  /\ pv_vectorstore' = r.store
               /\ pv_disk' = r.disk
               /\ resp' = Response("add_documents", None, 0, r.ret)
    /\ UNCHANGED <<poc, svcVars, now, wmVars, session_timeout_minutes, smVars, engVars,
                   p2Vars, document_registry, log, adds>>

\* VectorStoreManager.similarity_search
PV_SimilaritySearch ==
    /\ poc \in PvPocs
    /\ \E k \in TopKs, restricted \in BOOLEAN :
        \E results \in IF poc = "p03"
                       THEN pv_similarity_search(pv_vectorstore, k, restricted)
                       ELSE t6_similarity_search(pv_vectorstore, k, restricted) :
            resp' = Response("similarity_search", None, 0,
                             [k |-> k, results |-> results])
    /\ UNCHANGED <<poc, svcVars, pvVars, now, wmVars, session_timeout_minutes, smVars,
                   engVars, p2Vars, log, adds>>

\* get_document_count and is_initialized
PV_Status ==
    /\ poc \in PvPocs
    /\ resp' = Response("status", None, 0,
                        [document_count |-> pv_get_document_count(pv_vectorstore),
                         is_initialized |-> pv_is_initialized(pv_vectorstore)])
    /\ UNCHANGED <<poc, svcVars, pvVars, now, wmVars, session_timeout_minutes, smVars,
                   engVars, p2Vars, log, adds>>

\* VectorStoreManager.save
PV_Save ==
    /\ poc \in PvPocs
    /\ pv_disk' = pv_save(pv_vectorstore, pv_disk)
    /\ resp' = Response("save", None, 0, None)
    /\ UNCHANGED <<poc, svcVars, now, wmVars, session_timeout_minutes, smVars, engVars,
                   p2Vars, pv_vectorstore, document_registry, log, adds>>

\* VectorStoreManager.clear
PV_Clear ==
    /\ poc \in PvPocs
    /\ LET r == pv_clear(pv_vectorstore, pv_disk)
       IN  /\ pv_vectorstore' = r.store
           /\ pv_disk' = r.disk
           /\ resp' = Response("clear", None, 0, [files_removed |-> r.removed])
    /\ UNCHANGED <<poc, svcVars, now, wmVars, session_timeout_minutes, smVars, engVars,
                   p2Vars, document_registry, log, adds>>

\* the process is started again: a new manager is constructed on the path
PV_Restart ==
    /\ poc \in PvPocs
    /\ pv_vectorstore' = pv_load(pv_disk)
    /\ resp' = Response("restart", None, 0,
                        [document_count |-> pv_get_document_count(pv_load(pv_disk))])
    /\ UNCHANGED <<poc, svcVars, now, wmVars, session_timeout_minutes, smVars, engVars,
                   p2Vars, pv_disk, document_registry, log, adds>>

NextPV ==
    \/ PV_AddDocuments \/ PV_SimilaritySearch \/ PV_Status \/ PV_Save
    \/ PV_Clear \/ PV_Restart

SpecPV == InitPV /\ [][NextPV]_vars

----------------------------------------------------------------------------
(* poc-06 multiple-documents: EnhancedVectorStoreManager and                *)
(* MultiDocumentQAChain.ask                                                 *)

\* document identifiers
DocumentIds == {"d1", "d2"}

\* the filter_metadata values searches are given: the empty dict (which
\* `if filter_metadata` takes like None), a list sharing an element with
\* PdfChunk's tags, and a scalar where PdfChunk holds a list and TxtChunk
\* nothing
Filters == {EmptyDict, [tags |-> List(<<"c", "a">>)], [tags |-> Scalar("a")]}

\* Python truth value of filter_metadata
Truthy(filter_metadata) == filter_metadata /= EmptyDict

\* _matches_filter that tests scalars and lists alike, by equality
e_matches_filter_equal(metadata, filter_dict) ==
    \A key \in DOMAIN filter_dict :
        key \in DOMAIN metadata /\ metadata[key] = filter_dict[key]

e_matches_filter(metadata, filter_dict) ==
    \A key \in DOMAIN filter_dict :
        /\ key \in DOMAIN metadata
        /\ IF filter_dict[key].kind = "list"
           THEN /\ metadata[key].kind = "list"
                /\ \E i \in DOMAIN filter_dict[key].items :
                      \E j \in DOMAIN metadata[key].items :
                          filter_dict[key].items[i] = metadata[key].items[j]
           ELSE metadata[key] = filter_dict[key]

\* similarity_search_with_score(query, k): the min(k, ntotal) nearest chunks
\* in ascending distance, each with its place in the index; the embedding
\* decides which, so every choice is possible
RECURSIVE Arrangements(_, _)
Arrangements(S, m) ==
    IF m = 0 THEN {<<>>}
    ELSE UNION {{<<x>> \o rest : rest \in Arrangements(S \ {x}, m - 1)} : x \in S}

NearestOrders(store, k) ==
    Arrangements(1..Len(store.chunks), Min(k, Len(store.chunks)))

\* the loop of similarity_search_with_filter over the fetched chunks, from
\* the i-th on: a match is kept, and the loop stops once k are kept
RECURSIVE FilterLoop(_, _, _, _, _, _)
FilterLoop(store, order, filter_dict, k, i, kept) ==
    IF i > Len(order) THEN kept
    ELSE IF e_matches_filter(store.chunks[order[i]].metadata, filter_dict)
         THEN IF Len(kept) + 1 >= k THEN Append(kept, order[i])
              ELSE FilterLoop(store, order, filter_dict, k, i + 1,
                              Append(kept, order[i]))
         ELSE FilterLoop(store, order, filter_dict, k, i + 1, kept)

\* similarity_search_with_filter for one answer of the index: the places in
\* the index of the chunks returned, in the order returned
e_search_places(store, k, filter_metadata, order) ==
    IF Truthy(filter_metadata)
    THEN FilterLoop(store, order, filter_metadata, k, 1, <<>>)
    ELSE order

\* similarity_search_with_filter: the searches the index can answer with
e_similarity_search_with_filter(store, k, filter_metadata) ==
    IF ~store.built THEN {[fetched |-> <<>>, places |-> <<>>]}
    ELSE {[fetched |-> order,
           places  |-> e_search_places(store, k, filter_metadata, order)] :
             order \in NearestOrders(store, IF Truthy(filter_metadata)
                                            THEN k * 3 ELSE k)}

\* the lists of places similarity_search_with_filter can return
SearchPlaces(store, k, filter_metadata) ==
    {r.places : r \in e_similarity_search_with_filter(store, k, filter_metadata)}

\* the chunks at the places of the index
ChunksAt(store, places) == [i \in DOMAIN places |-> store.chunks[places[i]]]

\* the uploads add_documents is given: the chunks of a document, its
\* document_id and the metadata recorded for it. "d1" is a PDF of one chunk
\* (or, split into nothing, of none), "d2" a text file of two; either can be
\* uploaded again
DocumentUploads ==
    {[document_id |-> "d1", documents |-> <<>>,
      document_metadata |-> [file_type |-> "pdf"]],
     [document_id |-> "d1", documents |-> <<PdfChunk>>,
      document_metadata |-> [file_type |-> "pdf"]],
     [document_id |-> "d2", documents |-> <<TxtChunk, MdChunk>>,
      document_metadata |-> [file_type |-> "txt"]]}

\* doc.metadata["document_id"] = document_id, for each chunk
Tagged(documents, document_id) ==
    [i \in DOMAIN documents |->
        Document(documents[i].page_content,
                 DictSet(documents[i].metadata, "document_id", Scalar(document_id)))]

\* _save_document_registry: the directory afterwards
e_save_document_registry(registry, disk) ==
    [disk EXCEPT !.exists = TRUE, !.registry = RegistryFile(registry)]

\* _load_document_registry
e_load_document_registry(disk) ==
    IF disk.exists /\ disk.registry.saved THEN disk.registry.docs ELSE EmptyDict

\* add_documents: the count returned, and the index, the registry and the
\* directory afterwards
e_add_documents(store, registry, disk, documents, document_id, document_metadata) ==
    IF documents = <<>>
    THEN [ret |-> 0, store |-> store, registry |-> registry, disk |-> disk]
    ELSE LET chunks == Tagged(documents, document_id)
             added  == IF ~store.built THEN Faiss(chunks)
                       ELSE Faiss(store.chunks \o chunks)
             entry  == [file_type   |-> document_metadata.file_type,
                        chunk_count |-> Len(documents)]
             reg    == DictSet(registry, document_id, entry)
         IN  [ret |-> Len(documents), store |-> added, registry |-> reg,
              disk |-> e_save_document_registry(reg, pv_save(added, disk))]

\* delete_document that also drops the document's chunks from the index
e_delete_document_chunks(store, registry, disk, document_id) ==
    IF document_id \in DOMAIN registry
    THEN LET reg  == DictDel(registry, document_id)
             left == SelectSeq(store.chunks,
                        LAMBDA c : c.metadata.document_id /= Scalar(document_id))
         IN  [ret |-> TRUE, registry |-> reg, store |-> Faiss(left),
              disk |-> e_save_document_registry(reg, disk)]
    ELSE [ret |-> FALSE, registry |-> registry, store |-> store, disk |-> disk]

\* delete_document: whether the document was registered, and the registry,
\* the index and the directory afterwards
e_delete_document(store, registry, disk, document_id) ==
    IF document_id \in DOMAIN registry
    THEN LET reg == DictDel(registry, document_id)
         IN  [ret |-> TRUE, registry |-> reg, store |-> store,
              disk |-> e_save_document_registry(reg, disk)]
    ELSE [ret |-> FALSE, registry |-> registry, store |-> store, disk |-> disk]

e_get_unique_document_count(registry) == Cardinality(DOMAIN registry)

\* what MultiDocumentQAChain.ask gives when nothing was retrieved
NoRelevantDocuments == "no relevant documents"

\* MultiDocumentQAChain.ask for a number of chunks retrieved: the fixed answer without
\* sources, or what llm.predict gives ("raise" when the call fails)
qa_ask(retrieved) ==
    IF retrieved = 0 THEN {[answer |-> NoRelevantDocuments, total_sources |-> 0]}
    ELSE {[answer |-> a, total_sources |-> IF a = "raise" THEN 0 ELSE retrieved] :
             a \in LlmAnswers \cup {"raise"}}

InitP6 ==
    /\ poc = "p06"
    /\ InitCommon
    /\ InitSvcIdle
    /\ session_timeout_minutes = 0
    /\ pv_disk = NoDisk
    /\ pv_vectorstore = pv_load(pv_disk)
    /\ document_registry = e_load_document_registry(pv_disk)
    /\ InitWmIdle /\ InitSmIdle /\ InitEngIdle /\ InitP2Idle

\* EnhancedVectorStoreManager.add_documents
P6_AddDocuments ==
    /\ poc = "p06"
    /\ \E upload \in DocumentUploads :
        /\ pv_get_document_count(pv_vectorstore) + Len(upload.documents)
              <= MaxIndexed
        /\ LET r == e_add_documents(pv_vectorstore, document_registry, pv_disk,
                                    upload.documents, upload.document_id,
                                    upload.document_metadata)
           IN  /\ pv_vectorstore' = r.store
               /\ document_registry' = r.registry
               /\ pv_disk' = r.disk
               /\ resp' = Response("add_documents", upload.document_id, 0, r.ret)
    /\ UNCHANGED <<poc, svcVars, now, wmVars, session_timeout_minutes, smVars, engVars,
                   p2Vars, log, adds>>

\* EnhancedVectorStoreManager.similarity_search_with_filter
P6_Search ==
    /\ poc = "p06"
    /\ \E k \in TopKs, filter_metadata \in Filters :
        \E places \in SearchPlaces(pv_vectorstore, k, filter_metadata) :
            resp' = Response("search", None, 0,
                             [k |-> k, filter_metadata |-> filter_metadata,
                              places |-> places])
    /\ UNCHANGED <<poc, svcVars, pvVars, now, wmVars, session_timeout_minutes, smVars,
                   engVars, p2Vars, log, adds>>

\* MultiDocumentQAChain.ask
P6_Ask ==
    /\ poc = "p06"
    /\ \E k \in TopKs, filter_metadata \in Filters :
        \E retrieved \in {Len(places) :
                places \in SearchPlaces(pv_vectorstore, k, filter_metadata)} :
            \E a \in qa_ask(retrieved) :
                resp' = Response("ask", None, 0,
                                 [retrieved |-> retrieved, answer |-> a.answer,
                                  total_sources |-> a.total_sources])
    /\ UNCHANGED <<poc, svcVars, pvVars, now, wmVars, session_timeout_minutes, smVars,
                   engVars, p2Vars, log, adds>>

\* get_document_count, get_unique_document_count and is_initialized
P6_Status ==
    /\ poc = "p06"
    /\ resp' = Response("status", None, 0,
          [document_count |-> pv_get_document_count(pv_vectorstore),
           unique_documents |-> e_get_unique_document_count(document_registry),
           is_initialized |-> pv_is_initialized(pv_vectorstore)])
    /\ UNCHANGED <<poc, svcVars, pvVars, now, wmVars, session_timeout_minutes, smVars,
                   engVars, p2Vars, log, adds>>

\* EnhancedVectorStoreManager.delete_document
P6_DeleteDocument ==
    /\ poc = "p06"
    /\ \E document_id \in DocumentIds :
        LET r == e_delete_document(pv_vectorstore, document_registry, pv_disk,
                                   document_id)
        IN  /\ pv_vectorstore' = r.store
            /\ document_registry' = r.registry
            /\ pv_disk' = r.disk
            /\ resp' = Response("delete_document", document_id, 0, r.ret)
    /\ UNCHANGED <<poc, svcVars, now, wmVars, session_timeout_minutes, smVars, engVars,
                   p2Vars, log, adds>>

\* EnhancedVectorStoreManager.clear
P6_Clear ==
    /\ poc = "p06"
    /\ LET r == pv_clear(pv_vectorstore, pv_disk)
       IN  /\ pv_vectorstore' = r.store
           /\ pv_disk' = r.disk
           /\ resp' = Response("clear", None, 0, [files_removed |-> r.removed])
    /\ document_registry' = EmptyDict
    /\ UNCHANGED <<poc, svcVars, now, wmVars, session_timeout_minutes, smVars, engVars,
                   p2Vars, log, adds>>

\* the process is started again: a new manager is constructed on the path
P6_Restart ==
    /\ poc = "p06"
    /\ pv_vectorstore' = pv_load(pv_disk)
    /\ document_registry' = e_load_document_registry(pv_disk)
    /\ resp' = Response("restart", None, 0,
                        [document_count |-> pv_get_document_count(pv_load(pv_disk))])
    /\ UNCHANGED <<poc, svcVars, now, wmVars, session_timeout_minutes, smVars, engVars,
                   p2Vars, pv_disk, log, adds>>

NextP6 ==
    \/ P6_AddDocuments \/ P6_Search \/ P6_Ask \/ P6_Status
    \/ P6_DeleteDocument \/ P6_Clear \/ P6_Restart

SpecP6 == InitP6 /\ [][NextP6]_vars

----------------------------------------------------------------------------
(* poc-07 memory: ConversationalRAGChain.ask over the index the upload      *)
(* handler builds                                                           *)

\* the chunks the loaders of document_loader.py give: a page of a PDF, with
\* source and page, and pieces of a text file, with source only
CrPdfChunk == Document("t1", [source |-> Scalar("a.pdf"), page |-> Scalar("0")])

CrTxtChunk == Document("t1", [source |-> Scalar("b.txt")])

CrTxtChunk2 == Document("t2", [source |-> Scalar("b.txt")])

\* the chunk lists an upload gives
CrUploads == {<<CrPdfChunk>>, <<CrTxtChunk, CrTxtChunk2>>}

\* the filter_metadata values of chat requests: none, a source, a list of
\* sources, a page (a key the text chunks lack)
CrFilters ==
    {EmptyDict, [source |-> Scalar("b.txt")], [source |-> List(<<"a.pdf">>)],
     [page |-> Scalar("0")]}

\* what _ask_with_retrieval answers when no chunk is left
CouldNotFindDocuments == "could not find any relevant documents"

\* ConversationalRAGChain._matches_filter
cr_matches_filter(metadata, filter_dict) ==
    \A key \in DOMAIN filter_dict :
        key \in DOMAIN metadata /\ metadata[key] = filter_dict[key]

\* the loop of _ask_with_retrieval over the fetched chunks, from the i-th
\* on: a match is kept, and after each chunk the loop stops if top_k are kept
RECURSIVE cr_filter_loop(_, _, _, _, _, _)
cr_filter_loop(store, order, filter_dict, top_k, i, filtered_docs) ==
    IF i > Len(order) THEN filtered_docs
    ELSE LET kept == IF cr_matches_filter(store.chunks[order[i]].metadata,
                                          filter_dict)
                     THEN Append(filtered_docs, order[i])
                     ELSE filtered_docs
         IN  IF Len(kept) >= top_k THEN kept
             ELSE cr_filter_loop(store, order, filter_dict, top_k, i + 1, kept)

\* the lists of places of the index _ask_with_retrieval can retrieve
cr_retrieve(store, top_k, filter_metadata) ==
    IF Truthy(filter_metadata)
    THEN {cr_filter_loop(store, order, filter_metadata, top_k, 1, <<>>) :
             order \in NearestOrders(store, top_k * 3)}
    ELSE NearestOrders(store, top_k)

\* _ask_with_retrieval for the places retrieved: the fixed answer without
\* sources, or what llm.invoke gives ("raise" when the call fails)
cr_ask_with_retrieval(places) ==
    IF places = <<>> THEN {[answer |-> CouldNotFindDocuments, sources |-> <<>>]}
    ELSE {[answer |-> a, sources |-> places] : a \in LlmAnswers}
         \cup {[answer |-> "raise", sources |-> <<>>]}

\* ask: what is retrieved, the answer, the sources and retrieval_used
cr_ask(store, use_retrieval, top_k, filter_metadata) ==
    IF use_retrieval /\ store.built
    THEN UNION {{[retrieval_used |-> TRUE, places |-> places,
                  answer |-> r.answer, sources |-> r.sources] :
                    r \in cr_ask_with_retrieval(places)} :
                 places \in cr_retrieve(store, top_k, filter_metadata)}
    ELSE {[retrieval_used |-> FALSE, places |-> <<>>, answer |-> a,
           sources |-> <<>>] : a \in ask_outcomes}

InitCR ==
    /\ poc = "crag"
    /\ InitCommon
    /\ InitSvcIdle
    /\ session_timeout_minutes = 0
    /\ InitWmIdle /\ InitSmIdle /\ InitEngIdle /\ InitP2Idle /\ InitPvIdle

\* POST /upload: the chunks are added to the index, rag_chain is given the
\* index, and the index is saved
CR_Upload ==
    /\ poc = "crag"
    /\ \E chunks \in CrUploads :
        /\ pv_get_document_count(pv_vectorstore) + Len(chunks) <= MaxIndexed
        /\ LET added == IF ~pv_vectorstore.built THEN Faiss(chunks)
                        ELSE Faiss(pv_vectorstore.chunks \o chunks)
           IN  /\ pv_vectorstore' = added
               /\ pv_disk' = pv_save(added, pv_disk)
               /\ resp' = Response("upload", None, 200,
                                   [chunks_created |-> Len(chunks)])
    /\ UNCHANGED <<poc, svcVars, now, wmVars, session_timeout_minutes, smVars, engVars,
                   p2Vars, document_registry, log, adds>>

\* ConversationalRAGChain.ask, as POST /chat calls it
CR_Ask ==
    /\ poc = "crag"
    /\ \E use_retrieval \in BOOLEAN, top_k \in TopKs, filter_metadata \in CrFilters :
        \E r \in cr_ask(pv_vectorstore, use_retrieval, top_k, filter_metadata) :
            resp' = Response("ask", None, IF r.answer = "raise" THEN 500 ELSE 200,
                             [k |-> top_k, filter_metadata |-> filter_metadata,
                              retrieval_used |-> r.retrieval_used,
                              places |-> r.places, answer |-> r.answer,
                              sources |-> r.sources])
    /\ UNCHANGED <<poc, svcVars, pvVars, now, wmVars, session_timeout_minutes, smVars,
                   engVars, p2Vars, log, adds>>

NextCR == CR_Upload \/ CR_Ask

SpecCR == InitCR /\ [][NextCR]_vars

----------------------------------------------------------------------------
(* poc-07 with-memory: VectorStoreManager and RetrievalChain called         *)
(* directly, method by method                                               *)

\* the chunk lists add_documents is given: none, or the chunks of a request
ChunkLists == {<<>>} \cup {chunk_documents(request) : request \in IndexRequests}

InitVS ==
    /\ poc = "p7v"
    /\ InitCommon
    /\ InitSvcIdle
    /\ max_history_turns = 0
    /\ enable_openai_generation \in BOOLEAN
    /\ mm_sessions = EmptyDict
    /\ vectorstore = NoStore
    /\ session_timeout_minutes = 0
    /\ InitSmIdle /\ InitEngIdle /\ InitP2Idle /\ InitPvIdle

\* VectorStoreManager.add_documents
VS_AddDocuments ==
    /\ poc = "p7v"
    /\ \E docs \in ChunkLists :
        LET r == vs_add_documents(vectorstore, docs)
        IN  /\ vs_total_chunks(r.store) <= MaxChunks
            /\ vectorstore' = r.store
            /\ resp' = Response("add_documents", None, 0, r.ret)
    /\ UNCHANGED <<poc, svcVars, pvVars, now, max_history_turns, enable_openai_generation,
                   mm_sessions, session_timeout_minutes, smVars, engVars, p2Vars,
                   log, adds>>

\* VectorStoreManager.similarity_search
VS_SimilaritySearch ==
    /\ poc = "p7v"
    /\ \E k \in TopKs :
        \E results \in vs_similarity_search(vectorstore, k) :
            resp' = Response("similarity_search", None, 0,
                             [k |-> k, results |-> results])
    /\ UNCHANGED <<poc, svcVars, pvVars, now, wmVars, session_timeout_minutes, smVars,
                   engVars, p2Vars, log, adds>>

\* total_chunks and is_initialized
VS_Status ==
    /\ poc = "p7v"
    /\ resp' = Response("status", None, 0,
                        [document_count |-> vs_total_chunks(vectorstore),
                         is_initialized |-> vs_is_initialized(vectorstore)])
    /\ UNCHANGED <<poc, svcVars, pvVars, now, wmVars, session_timeout_minutes, smVars,
                   engVars, p2Vars, log, adds>>

\* VectorStoreManager.clear
VS_Clear ==
    /\ poc = "p7v"
    /\ vectorstore' = NoStore
    /\ resp' = Response("clear", None, 0, None)
    /\ UNCHANGED <<poc, svcVars, pvVars, now, max_history_turns, enable_openai_generation,
                   mm_sessions, session_timeout_minutes, smVars, engVars, p2Vars,
                   log, adds>>

\* "\n".join(lines)
RECURSIVE PyJoin(_)
PyJoin(lines) ==
    IF Len(lines) = 0 THEN ""
    ELSE IF Len(lines) = 1 THEN lines[1]
    ELSE lines[1] \o "\n" \o PyJoin(Tail(lines))

\* _compose_query taking the last two messages of either role
rc_compose_query_any_role(message, history) ==
    LET previous_messages == [i \in DOMAIN history |-> history[i].content]
        history_slice     == PySuffix(previous_messages, 2)
    IN  IF history_slice = <<>> THEN message
        ELSE PyJoin(history_slice \o <<message>>)

\* RetrievalChain._compose_query
rc_compose_query(message, history) ==
    LET user_messages == SelectSeq(history, LAMBDA m : m.role = "user")
        previous_user_messages ==
            [i \in DOMAIN user_messages |-> user_messages[i].content]
        history_slice == PySuffix(previous_user_messages, 2)
    IN  IF history_slice = <<>> THEN message
        ELSE PyJoin(history_slice \o <<message>>)

\* RetrievalChain.make_query
rc_make_query(message, history) == rc_compose_query(message, history)

\* the histories make_query is given: up to n turns of a question and the
\* answer to it
RECURSIVE TurnHistories(_)
TurnHistories(n) ==
    IF n = 0 THEN {<<>>}
    ELSE LET shorter == TurnHistories(n - 1)
         IN  shorter \cup
             {h \o <<Msg("user", q), Msg("assistant", a)>> :
                 h \in shorter, q \in Questions, a \in LlmAnswers}

\* those, and a history that holds an assistant message only
QueryHistories == TurnHistories(MaxQueryTurns) \cup {<<Msg("assistant", "llm")>>}

\* RetrievalChain.make_query called directly
RC_MakeQuery ==
    /\ poc = "p7v"
    /\ \E message \in Questions, history \in QueryHistories :
        resp' = Response("make_query", None, 0,
                         [message |-> message, history |-> history,
                          query |-> rc_make_query(message, history)])
    /\ UNCHANGED <<poc, svcVars, pvVars, now, wmVars, session_timeout_minutes, smVars,
                   engVars, p2Vars, log, adds>>

\* the lists of chunks RetrievalChain.answer is given: none, or what a
\* search of the index returned
AnswerDocs(store) ==
    {<<>>} \cup UNION {vs_similarity_search(store, k) : k \in TopKs}

\* RetrievalChain.answer
RC_Answer ==
    /\ poc = "p7v"
    /\ \E docs \in AnswerDocs(vectorstore) :
        \E answer \in rc_answers(enable_openai_generation, docs) :
            resp' = Response("answer", None, IF answer = "raise" THEN 500 ELSE 0,
                             [retrieved |-> Len(docs), answer |-> answer,
                              citations |-> IF answer = "raise" THEN <<>>
                                            ELSE build_citations(docs)])
    /\ UNCHANGED <<poc, svcVars, pvVars, now, wmVars, session_timeout_minutes, smVars,
                   engVars, p2Vars, log, adds>>

NextVS ==
    \/ VS_AddDocuments \/ VS_SimilaritySearch \/ VS_Status \/ VS_Clear
    \/ RC_Answer \/ RC_MakeQuery

SpecVS == InitVS /\ [][NextVS]_vars

----------------------------------------------------------------------------
(* poc-01: POST /chat of app/main.py *)

\* no exception was raised
NoException == "no exception"

\* the base class of each exception class that can reach the except clauses
\* of chat_completion: the classes main.py imports from the openai package,
\* the other classes of the package that derive from them, and classes
\* outside the package
ExceptionBase ==
    [OpenAIError            |-> "Exception",
     APIError               |-> "OpenAIError",
     APIStatusError         |-> "APIError",
     APIConnectionError     |-> "APIError",
     APIResponseValidationError |-> "APIError",
     APITimeoutError        |-> "APIConnectionError",
     RateLimitError         |-> "APIStatusError",
     AuthenticationError    |-> "APIStatusError",
     InternalServerError    |-> "APIStatusError",
     IndexError             |-> "Exception",
     ValidationError        |-> "Exception",
     Exception              |-> "BaseException"]

ExceptionClasses == DOMAIN ExceptionBase

\* isinstance(an instance of cls, base)
RECURSIVE IsInstance(_, _)
IsInstance(cls, base) ==
    \/ cls = base
    \/ /\ cls \in ExceptionClasses
       /\ IsInstance(ExceptionBase[cls], base)

\* the clauses of chat_completion with the clause of APIError at the front
except_clauses_api_error_first ==
    <<[catches |-> "APIError",           status_code |-> 502],
      [catches |-> "RateLimitError",     status_code |-> 429],
      [catches |-> "APIConnectionError", status_code |-> 503],
      [catches |-> "OpenAIError",        status_code |-> 500],
      [catches |-> "Exception",          status_code |-> 500]>>

\* the except clauses of chat_completion, in the order of the source
except_clauses ==
    <<[catches |-> "RateLimitError",     status_code |-> 429],
      [catches |-> "APIConnectionError", status_code |-> 503],
      [catches |-> "APIError",           status_code |-> 502],
      [catches |-> "OpenAIError",        status_code |-> 500],
      [catches |-> "Exception",          status_code |-> 500]>>

\* what the body of the try block can do: chat.completions.create raises, or
\* returns a completion; a completion without choices fails at choices[0],
\* one without content fails the validation of ChatResponse
CreateOutcomes ==
    {[create_raises |-> cls, completion |-> "none"] :
        cls \in ExceptionClasses \ {"IndexError", "ValidationError"}}
    \cup {[create_raises |-> NoException, completion |-> c] :
             c \in {"answer", "no choices", "no content"}}

\* the exception the try block of chat_completion ends with
try_block(outcome) ==
    IF outcome.create_raises # NoException THEN outcome.create_raises
    ELSE CASE outcome.completion = "no choices" -> "IndexError"
           [] outcome.completion = "no content" -> "ValidationError"
           [] OTHER                             -> NoException

\* the first except clause that matches the exception
first_except_clause(raised) ==
    LET matching == {i \in DOMAIN except_clauses :
                        IsInstance(raised, except_clauses[i].catches)}
    IN  except_clauses[CHOOSE i \in matching : \A j \in matching : i <= j]

\* chat_completion: one call of chat.completions.create, then the response
\* or the HTTPException of the matching except clause
chat_completion(outcome) ==
    LET raised == try_block(outcome)
    IN  [create_calls |-> 1,
         raised       |-> raised,
         status_code  |-> IF raised = NoException THEN 200
                          ELSE first_except_clause(raised).status_code]

InitP1 ==
    /\ poc = "p01"
    /\ InitCommon
    /\ InitSvcIdle
    /\ session_timeout_minutes = 0
    /\ InitWmIdle /\ InitSmIdle /\ InitEngIdle /\ InitP2Idle /\ InitPvIdle

\* POST /chat
P1_Chat ==
    /\ poc = "p01"
    /\ \E outcome \in CreateOutcomes :
        LET r == chat_completion(outcome)
        IN  resp' = Response("chat_completion", None, r.status_code, r)
    /\ UNCHANGED <<poc, svcVars, now, session_timeout_minutes, wmVars, smVars,
                   engVars, p2Vars, pvVars, log, adds>>

NextP1 == P1_Chat

SpecP1 == InitP1 /\ [][NextP1]_vars

----------------------------------------------------------------------------
(* poc-05: metrics_middleware of app/main.py and APMMetrics of apm_utils.py. *)
(* "p05" serves the requests from one event loop, as uvicorn.run does: a    *)
(* request gives way to another one at `await call_next` only. "p5t" is the *)
(* TestClient called from the threads of a pool, as test_concurrent_requests*)
(* does: each call runs the application in the thread of its caller, and    *)
(* the statements of record_request interleave.                             *)

\* the requests a behaviour issues
MaxRequests == 2

Requests == 1..MaxRequests

\* processing_time_ms, in whole milliseconds
ProcessingTimes == {1, 2}

\* APMMetrics.__init__
APMMetrics_init ==
    [total_requests |-> 0, total_response_time_ms |-> 0, error_count |-> 0]

\* record_request that counts an error for every request
record_request_all_errors(m, response_time_ms, is_error) ==
    [total_requests         |-> m.total_requests + 1,
     total_response_time_ms |-> m.total_response_time_ms + response_time_ms,
     error_count            |-> m.error_count + 1]

\* APMMetrics.record_request, run without interruption
record_request(m, response_time_ms, is_error) ==
    [total_requests         |-> m.total_requests + 1,
     total_response_time_ms |-> m.total_response_time_ms + response_time_ms,
     error_count            |-> IF is_error THEN m.error_count + 1
                                ELSE m.error_count]

\* round(total / count, 2), in hundredths of a millisecond
Round2(total, count) == (200 * total + count) \div (2 * count)

\* APMMetrics.get_metrics; avg_response_time_ms is in hundredths
get_metrics(m) ==
    [total_requests       |-> m.total_requests,
     avg_response_time_ms |-> IF m.total_requests > 0
                              THEN Round2(m.total_response_time_ms,
                                          m.total_requests)
                              ELSE 0,
     error_count          |-> m.error_count]

\* what `await call_next(request)` can end with: the response of a handler
\* (GET /health, GET /metrics, the HTTPException of GET /error/test, a path
\* without a route) or an exception that no handler turned into a response
CallNextOutcomes ==
    {[endpoint |-> "/health",     status_code |-> 200, raised |-> FALSE],
     [endpoint |-> "/metrics",    status_code |-> 200, raised |-> FALSE],
     [endpoint |-> "/error/test", status_code |-> 500, raised |-> FALSE],
     [endpoint |-> "/missing",    status_code |-> 404, raised |-> FALSE],
     [endpoint |-> "/raising",    status_code |-> 0,   raised |-> TRUE]}

\* the attributes record_request updates, in the order of its statements
RecordFields == <<"total_requests", "total_response_time_ms", "error_count">>

\* a request that was not issued yet
IdleRequest ==
    [pc |-> "idle", endpoint |-> "", status_code |-> 0, raised |-> FALSE,
     is_error |-> FALSE, processing_time_ms |-> 0, body |-> get_metrics(APMMetrics_init),
     at |-> 1, has_loaded |-> FALSE, loaded |-> 0]

\* metrics_middleware from `try` to the start of `finally`
middleware_try(outcome) ==
    IF outcome.raised THEN TRUE ELSE outcome.status_code >= 400

InitP5Common ==
    /\ InitCommon
    /\ session_timeout_minutes = 0
    /\ InitWmIdle /\ InitSmIdle /\ InitEngIdle /\ InitP2Idle /\ InitPvIdle
    /\ metrics = APMMetrics_init
    /\ threads = [t \in Requests |-> IdleRequest]
    /\ agent_settings = [max_iterations |-> 0, agent_verbose |-> FALSE]
    /\ agent_executor = [max_iterations |-> 0, verbose |-> FALSE]

InitP5 == poc = "p05" /\ InitP5Common

InitP5T == poc = "p5t" /\ InitP5Common

p5Frame == <<poc, now, session_timeout_minutes, wmVars, smVars, engVars,
             p2Vars, pvVars, agent_settings, agent_executor, resp, log, adds>>

\* a request arrives: metrics_middleware takes start_time and awaits call_next
P5_Start ==
    /\ poc \in {"p05", "p5t"}
    /\ \E t \in Requests :
        /\ threads[t].pc = "idle"
        /\ threads' = [threads EXCEPT ![t].pc = "call_next"]
    /\ UNCHANGED <<metrics, p5Frame>>

\* call_next returns or raises; GET /metrics reads the metrics in its handler.
\* The middleware sets is_error and reaches `finally`
P5_CallNext ==
    /\ poc \in {"p05", "p5t"}
    /\ \E t \in Requests, outcome \in CallNextOutcomes, ms \in ProcessingTimes :
        /\ threads[t].pc = "call_next"
        /\ threads' = [threads EXCEPT ![t] =
              [@ EXCEPT !.pc = "finally",
                        !.endpoint = outcome.endpoint,
                        !.status_code = outcome.status_code,
                        !.raised = outcome.raised,
                        !.is_error = middleware_try(outcome),
                        !.processing_time_ms = ms,
                        !.body = IF outcome.endpoint = "/metrics"
                                 THEN get_metrics(metrics) ELSE @]]
    /\ UNCHANGED <<metrics, p5Frame>>

\* `finally` under the event loop: record_request runs to its end
P5_RecordRequest ==
    /\ poc = "p05"
    /\ \E t \in Requests :
        /\ threads[t].pc = "finally"
        /\ metrics' = record_request(metrics, threads[t].processing_time_ms,
                                     threads[t].is_error)
        /\ threads' = [threads EXCEPT ![t].pc = "done"]
    /\ UNCHANGED p5Frame

\* what the statement of record_request a thread is at adds to its attribute
record_delta(thread) ==
    CASE thread.at = 1 -> 1
      [] thread.at = 2 -> thread.processing_time_ms
      [] OTHER         -> 1

\* `finally` in a thread, first half of `self.x += d`: the attribute is read
P5T_Load ==
    /\ poc = "p5t"
    /\ \E t \in Requests :
        /\ threads[t].pc = "finally"
        /\ ~threads[t].has_loaded
        /\ threads' = [threads EXCEPT ![t].has_loaded = TRUE,
                                      ![t].loaded = metrics[RecordFields[threads[t].at]]]
    /\ UNCHANGED <<metrics, p5Frame>>

\* second half of `self.x += d`: the sum is written; the thread goes on to
\* the next statement, passing `self.error_count += 1` unless is_error
P5T_Store ==
    /\ poc = "p5t"
    /\ \E t \in Requests :
        LET thread == threads[t]
            last   == IF thread.is_error THEN 3 ELSE 2
        IN  /\ thread.pc = "finally"
            /\ thread.has_loaded
            /\ metrics' = [metrics EXCEPT ![RecordFields[thread.at]] =
                              thread.loaded + record_delta(thread)]
            /\ threads' = [threads EXCEPT ![t] =
                  [@ EXCEPT !.has_loaded = FALSE,
                            !.loaded = 0,
                            !.at = IF thread.at = last THEN 1 ELSE thread.at + 1,
                            !.pc = IF thread.at = last THEN "done" ELSE "finally"]]
    /\ UNCHANGED p5Frame

NextP5 == P5_Start \/ P5_CallNext \/ P5_RecordRequest

SpecP5 == InitP5 /\ [][NextP5]_vars

NextP5T == P5_Start \/ P5_CallNext \/ P5T_Load \/ P5T_Store

SpecP5T == InitP5T /\ [][NextP5T]_vars

----------------------------------------------------------------------------
(* poc-08: AgentExecutorService of app/agent_executor.py, the one instance  *)
(* that the lifespan of app/main.py creates                                  *)

\* the largest max_iterations, configured or passed
MaxIterations == 2

\* an Optional argument: None, or a value
NoneInt == [is_none |-> TRUE, value |-> 0]

NoneBool == [is_none |-> TRUE, value |-> FALSE]

Given(v) == [is_none |-> FALSE, value |-> v]

MaxIterationsArgs == {NoneInt} \cup {Given(n) : n \in 1..MaxIterations}

VerboseArgs == {NoneBool} \cup {Given(b) : b \in BOOLEAN}

\* str(e) of the exception a failing run raises
AgentFailure == "agent failure"

\* the tools an agent action can name
AgentTools == {"calculator", "get_current_time"}

\* the (action, observation) pairs of a run of at most n iterations
IntermediateSteps(n) ==
    UNION {[1..k -> [tool : AgentTools, observation : {"observed"}]] : k \in 0..n}

\* what agent_executor.invoke can do when it runs with the given settings:
\* raise, or return a result with or without the keys "output" and
\* "intermediate_steps"
InvokeOutcomes(executor) ==
    {[raises |-> TRUE, has_output |-> FALSE, has_steps |-> FALSE,
      intermediate_steps |-> <<>>]}
    \cup {[raises |-> FALSE, has_output |-> o, has_steps |-> TRUE,
           intermediate_steps |-> s] :
             o \in BOOLEAN, s \in IntermediateSteps(executor.max_iterations)}
    \cup {[raises |-> FALSE, has_output |-> TRUE, has_steps |-> FALSE,
           intermediate_steps |-> <<>>]}

\* _create_agent: the AgentExecutor takes its settings from the Settings
create_agent(settings) ==
    [max_iterations |-> settings.max_iterations,
     verbose        |-> settings.agent_verbose]

\* the assignments of execute_task that precede invoke
apply_overrides(executor, max_iterations, verbose) ==
    [max_iterations |-> IF ~max_iterations.is_none THEN max_iterations.value
                        ELSE executor.max_iterations,
     verbose        |-> IF ~verbose.is_none THEN verbose.value
                        ELSE executor.verbose]

\* the steps list with the steps numbered from 0, as enumerate counts
extract_steps_from_zero(outcome) ==
    IF outcome.has_steps
    THEN [i \in 1..Len(outcome.intermediate_steps) |->
             [step_number |-> i - 1,
              action      |-> outcome.intermediate_steps[i].tool,
              observation |-> outcome.intermediate_steps[i].observation]]
    ELSE <<>>

\* the steps list execute_task builds from result["intermediate_steps"]
extract_steps(outcome) ==
    IF outcome.has_steps
    THEN [i \in 1..Len(outcome.intermediate_steps) |->
             [step_number |-> i,
              action      |-> outcome.intermediate_steps[i].tool,
              observation |-> outcome.intermediate_steps[i].observation]]
    ELSE <<>>

\* the TaskResponse of execute_task for what invoke did
task_response(outcome) ==
    IF outcome.raises
    THEN [result |-> "Error: " \o AgentFailure, steps |-> <<>>,
          total_steps |-> 0, success |-> FALSE]
    ELSE LET steps == extract_steps(outcome)
         IN  [result |-> IF outcome.has_output THEN "output"
                         ELSE "No output generated",
              steps |-> steps, total_steps |-> Len(steps), success |-> TRUE]

\* the lifespan creates the service; the Settings come from the environment
InitP8 ==
    /\ poc = "p08"
    /\ InitCommon
    /\ session_timeout_minutes = 0
    /\ InitWmIdle /\ InitSmIdle /\ InitEngIdle /\ InitP2Idle /\ InitPvIdle
    /\ metrics = [total_requests |-> 0, total_response_time_ms |-> 0,
                  error_count |-> 0]
    /\ threads = <<>>
    /\ agent_settings \in [max_iterations : 1..MaxIterations,
                           agent_verbose : BOOLEAN]
    /\ agent_executor = create_agent(agent_settings)

\* AgentExecutorService.execute_task(task, max_iterations, verbose)
P8_ExecuteTask ==
    /\ poc = "p08"
    /\ \E max_iterations \in MaxIterationsArgs, verbose \in VerboseArgs :
        LET executor == apply_overrides(agent_executor, max_iterations, verbose)
        IN  /\ agent_executor' = executor
            /\ \E outcome \in InvokeOutcomes(executor) :
                 LET r == task_response(outcome)
                 IN  resp' = Response("execute_task", None,
                                      IF r.success THEN 200 ELSE 500,
                                      [max_iterations |-> max_iterations,
                                       verbose |-> verbose,
                                       ran_with |-> executor,
                                       outcome |-> outcome,
                                       response |-> r])
    /\ UNCHANGED <<poc, now, session_timeout_minutes, wmVars, smVars, engVars,
                   p2Vars, pvVars, metrics, threads, agent_settings, log, adds>>

NextP8 == P8_ExecuteTask

SpecP8 == InitP8 /\ [][NextP8]_vars

----------------------------------------------------------------------------
(* Any one of the programs *)

\* the programs that answer chat messages
InitChat == InitWM \/ InitSM \/ InitEng \/ InitP2

NextChat == NextWM \/ NextSM \/ NextEng \/ NextP2

SpecChat == InitChat /\ [][NextChat]_vars

\* the programs that keep an index of documents
InitIndex == InitVS \/ InitPV \/ InitP6 \/ InitCR

NextIndex == NextVS \/ NextPV \/ NextP6 \/ NextCR

SpecIndex == InitIndex /\ [][NextIndex]_vars

\* the programs that keep neither conversations nor documents, served from
\* one event loop
InitSvc == InitP1 \/ InitP5 \/ InitP8

NextSvc == NextP1 \/ NextP5 \/ NextP8

SpecSvc == InitSvc /\ [][NextSvc]_vars

\* the chunks the index of the running program holds
IndexChunks ==
    IF poc = "p7v" THEN (IF vectorstore.built THEN vectorstore.chunks ELSE <<>>)
    ELSE (IF pv_vectorstore.built THEN pv_vectorstore.chunks ELSE <<>>)

\* total_chunks / get_document_count of the running program
IndexCount ==
    IF poc = "p7v" THEN vs_total_chunks(vectorstore)
    ELSE pv_get_document_count(pv_vectorstore)

\* is_initialized of the running program
IndexInitialized ==
    IF poc = "p7v" THEN vs_is_initialized(vectorstore)
    ELSE pv_is_initialized(pv_vectorstore)

\* the calls that search the index, and the list a search returned
SearchOps == {"similarity_search", "search"}

SearchResult(r) == IF r.op = "search" THEN r.val.places ELSE r.val.results

Init == InitChat \/ InitIndex \/ InitSvc \/ InitP5T

Next == NextChat \/ NextIndex \/ NextSvc \/ NextP5T

Spec == Init /\ [][Next]_vars

----------------------------------------------------------------------------
(* Properties *)

\* the last n elements of seq
LastN(seq, n) == SubSeq(seq, Len(seq) - n + 1, Len(seq))

\* a session of the poc-07 memory store is expired when its last activity is
\* older than now - timeout
Stale(session) == session.last_activity < now - session_timeout_minutes

SweepOps == {"list_sessions", "health"}

\* C1: with max_history_turns = H >= 1, a session that has had M add_turn
\* calls since it was absent or empty holds exactly min(2*M, 2*H) messages.
C1_TurnCount ==
    (poc = "wm" /\ max_history_turns >= 1) =>
        \A s \in Ids :
            mm_get_message_count(mm_sessions, s)
                = Min(2 * adds[s], 2 * max_history_turns)

\* a session that has had more turns than it keeps
C1_Witness ==
    /\ poc = "wm"
    /\ max_history_turns >= 1
    /\ \E s \in DOMAIN mm_sessions :
        /\ adds[s] > max_history_turns
        /\ Len(mm_sessions[s].messages) = 2 * max_history_turns

\* C2: every stored history is within its retention bound (2*max_history_turns
\* messages in MemoryManager, max_history messages in a Session) and is the
\* most recent part, in order, of what was appended to the session.
C2_Retention ==
    /\ poc = "wm" =>
        \A s \in DOMAIN mm_sessions :
            /\ Len(mm_sessions[s].messages) <= 2 * max_history_turns
            /\ mm_sessions[s].messages = LastN(log[s], Len(mm_sessions[s].messages))
    /\ poc = "sm" =>
        \A s \in DOMAIN sm_sessions :
            /\ Len(sm_sessions[s].messages) <= max_history
            /\ sm_sessions[s].messages = LastN(log[s], Len(sm_sessions[s].messages))

\* the part of C2 the code keeps: with a positive limit the bound holds, and
\* with any limit the stored messages are the most recent ones in order
C2_PositiveLimit ==
    /\ poc = "wm" =>
        \A s \in DOMAIN mm_sessions :
            /\ max_history_turns >= 1 =>
                  Len(mm_sessions[s].messages) <= 2 * max_history_turns
            /\ mm_sessions[s].messages = LastN(log[s], Len(mm_sessions[s].messages))
    /\ poc = "sm" =>
        \A s \in DOMAIN sm_sessions :
            /\ max_history >= 1 => Len(sm_sessions[s].messages) <= max_history
            /\ sm_sessions[s].messages = LastN(log[s], Len(sm_sessions[s].messages))

\* C3: POST /chat on an index that holds no chunks answers 400 and leaves
\* the session store as it was; ask on an engine without documents raises
\* ValueError and leaves the sessions as they were.
C3_NothingIndexed ==
    [][/\ (poc = "wm" /\ resp'.op = "chat" /\ vs_total_chunks(vectorstore) = 0) =>
            (resp'.status = 400 /\ mm_sessions' = mm_sessions)
       /\ (poc = "eng" /\ resp'.op = "ask" /\ Len(eng_documents) = 0) =>
            (resp'.val = [error |-> "ValueError"] /\ eng_sessions' = eng_sessions)
      ]_vars

\* a chat refused for want of an index while sessions exist
C3_Witness ==
    /\ poc = "wm"
    /\ resp.op = "chat"
    /\ resp.status = 400
    /\ ~vectorstore.built
    /\ mm_sessions /= EmptyDict

\* C4: the sweep of list_sessions and get_active_session_count removes exactly
\* the sessions whose last_activity is older than now - timeout, leaves the
\* others as they are, and the list or count returned covers what is left.
C4_Sweep ==
    [][(poc = "sm" /\ resp'.op \in SweepOps) =>
          /\ DOMAIN sm_sessions' = {s \in DOMAIN sm_sessions : ~Stale(sm_sessions[s])}
          /\ \A s \in DOMAIN sm_sessions' : sm_sessions'[s] = sm_sessions[s]
          /\ resp'.op = "list_sessions" =>
                /\ {i.session_id : i \in resp'.val.sessions} = DOMAIN sm_sessions'
                /\ resp'.val.total_sessions = Cardinality(DOMAIN sm_sessions')
          /\ resp'.op = "health" =>
                resp'.val.active_sessions = Cardinality(DOMAIN sm_sessions')
      ]_vars

\* a sweep that removed a session and kept one whose last activity is exactly
\* timeout old
C4_Witness ==
    /\ poc = "sm"
    /\ resp.op = "list_sessions"
    /\ resp.val.cleaned_up >= 1
    /\ \E s \in DOMAIN sm_sessions :
          sm_sessions[s].last_activity = now - session_timeout_minutes

\* C5 as stated: with timeout 0, a sweep removes every session that has had
\* no activity since it was created, also when the clock still shows the
\* instant of its creation.
C5_SweepAtCreation ==
    [][(poc = "sm" /\ session_timeout_minutes = 0 /\ resp'.op \in SweepOps) =>
          \A s \in DOMAIN sm_sessions :
              sm_sessions[s].messages = <<>> => s \notin DOMAIN sm_sessions'
      ]_vars

\* C5 amended: with timeout 0, a sweep removes a session that has had no
\* activity since it was created exactly when the clock has passed the
\* instant of its creation.
C5_SweepAfterCreation ==
    [][(poc = "sm" /\ session_timeout_minutes = 0 /\ resp'.op \in SweepOps) =>
          \A s \in DOMAIN sm_sessions :
              sm_sessions[s].messages = <<>> =>
                  (s \notin DOMAIN sm_sessions' <=> now > sm_sessions[s].last_activity)
      ]_vars

\* with timeout 0, a sweep that removed a session and kept one created at
\* the instant of the sweep
C5_Witness ==
    /\ poc = "sm"
    /\ session_timeout_minutes = 0
    /\ resp.op \in SweepOps
    /\ resp.val.cleaned_up >= 1
    /\ \E s \in DOMAIN sm_sessions :
          sm_sessions[s].messages = <<>> /\ sm_sessions[s].last_activity = now

\* C6: POST /chat and GET /sessions/{id}/history on a session that is unknown
\* or older than the timeout answer 404, keep no such session, and leave every
\* other session as it was; no other answer is given for such a session.
C6_ExpiredNotFound ==
    [][(poc = "sm" /\ resp'.op \in {"chat", "history"}) =>
          LET sid  == resp'.sid
              gone == sid \notin DOMAIN sm_sessions \/ Stale(sm_sessions[sid])
          IN  /\ gone =>
                    /\ resp'.status = 404
                    /\ sid \notin DOMAIN sm_sessions'
                    /\ \A s \in DOMAIN sm_sessions' :
                          s \in DOMAIN sm_sessions /\ sm_sessions'[s] = sm_sessions[s]
              /\ resp'.status /= 404 => ~gone
      ]_vars

\* a chat refused because its session had expired, another session being kept
C6_Witness ==
    /\ poc = "sm"
    /\ resp.op = "chat"
    /\ resp.status = 404
    /\ resp.val.expired
    /\ sm_sessions /= EmptyDict

\* C7: a successful POST /chat on a session id that is not in the store
\* creates the session, which then holds that turn's two messages, the
\* user's first.
C7_LazyCreation ==
    [][(poc = "wm" /\ resp'.op = "chat" /\ resp'.status = 200
            /\ resp'.sid \notin DOMAIN mm_sessions) =>
          /\ resp'.sid \in DOMAIN mm_sessions'
          /\ \E q \in Questions :
                mm_sessions'[resp'.sid].messages
                    = <<Msg("user", q), Msg("assistant", resp'.val.answer)>>
      ]_vars

\* a first chat answered for a session nobody created
C7_Witness ==
    /\ poc = "wm"
    /\ resp.op = "chat"
    /\ resp.status = 200
    /\ adds[resp.sid] = 1
    /\ resp.val.used_history_turns = 0
    /\ Len(mm_sessions[resp.sid].messages) = 2

\* C8: POST /chat on one session leaves every other session as it was:
\* present or absent as before, with the same history and message count.
C8_Isolation ==
    [][(poc = "wm" /\ resp'.op = "chat") =>
          \A s2 \in Ids \ {resp'.sid} :
              /\ mm_session_exists(mm_sessions', s2) = mm_session_exists(mm_sessions, s2)
              /\ mm_get_history(mm_sessions', s2).list
                     = mm_get_history(mm_sessions, s2).list
              /\ mm_get_message_count(mm_sessions', s2)
                     = mm_get_message_count(mm_sessions, s2)
      ]_vars

\* a chat answered on one session while another holds messages
C8_Witness ==
    /\ poc = "wm"
    /\ resp.op = "chat"
    /\ resp.status = 200
    /\ \E s2 \in DOMAIN mm_sessions \ {resp.sid} : Len(mm_sessions[s2].messages) > 0

\* C9: get_history and get_message_count change nothing; for an unknown
\* session they give [] and 0 and do not create it; a caller that changes
\* the list get_history gave it does not change the stored history.
C9_ReadOnly ==
    [][poc = "wm" =>
          /\ resp'.op = "get_history" =>
                /\ mm_sessions' = mm_sessions
                /\ resp'.val.list = IF resp'.sid \in DOMAIN mm_sessions
                                    THEN mm_sessions[resp'.sid].messages
                                    ELSE <<>>
          /\ resp'.op = "get_session" =>
                /\ mm_sessions' = mm_sessions
                /\ resp'.sid \notin DOMAIN mm_sessions =>
                      (resp'.val.message_count = 0 /\ ~resp'.val.exists)
          /\ resp'.op = "mutated" => mm_sessions' = mm_sessions
      ]_vars

\* a caller has changed the list it got for a session that holds messages
C9_Witness ==
    /\ poc = "wm"
    /\ resp.op = "mutated"
    /\ resp.sid \in DOMAIN mm_sessions
    /\ Len(mm_sessions[resp.sid].messages) > 0
    /\ resp.val.list /= mm_sessions[resp.sid].messages

\* C10: delete_session (poc-07) and clear_session (poc-02) return true exactly
\* when the session existed, and the session is absent afterwards; deleting
\* the same id again returns false; in poc-02 clearing an unknown id answers
\* 404, and so does the info lookup of a session just cleared.
C10_Delete ==
    [][/\ (poc = "wm" /\ resp'.op = "delete_session") =>
            /\ resp'.val = (resp'.sid \in DOMAIN mm_sessions)
            /\ resp'.sid \notin DOMAIN mm_sessions'
       /\ (poc = "sm" /\ resp'.op = "delete_session") =>
            /\ resp'.val = (resp'.sid \in DOMAIN sm_sessions)
            /\ resp'.sid \notin DOMAIN sm_sessions'
       /\ (poc = "p02" /\ resp'.op = "clear_session") =>
            /\ resp'.val = (resp'.sid \in DOMAIN p2_sessions)
            /\ resp'.sid \notin DOMAIN p2_sessions'
            /\ resp'.status = IF resp'.sid \in DOMAIN p2_sessions THEN 200 ELSE 404
       /\ (resp'.op \in {"delete_session", "clear_session"}
              /\ resp.op = resp'.op /\ resp.sid = resp'.sid) =>
            resp'.val = FALSE
       /\ (poc = "p02" /\ resp.op = "clear_session" /\ resp'.op = "get_session"
              /\ resp'.sid = resp.sid) =>
            resp'.status = 404
      ]_vars

\* a session of poc-02 has been cleared while another is kept
C10_Witness ==
    /\ poc = "p02"
    /\ resp.op = "clear_session"
    /\ resp.val = TRUE
    /\ resp.status = 200
    /\ p2_sessions /= EmptyDict

C12_EmptySearch ==
    [][(resp'.op \in SearchOps /\ IndexCount = 0)
          => SearchResult(resp') = <<>>]_vars

\* a filtered search of two has run on the poc-06 index that holds nothing
C12_Witness ==
    /\ poc = "p06"
    /\ resp.op = "search"
    /\ resp.val.k = 2
    /\ Truthy(resp.val.filter_metadata)
    /\ IndexCount = 0
    /\ resp.val.places = <<>>

\* C13: an add of N >= 1 chunks leaves is_initialized() true, whatever the
\* manager held before, and makes the count N when it held nothing; and every
\* search with parameter k returns at most min(k, chunks in the index) results
C13_AddThenSearch ==
    [][/\ (resp'.op = "add_documents" /\ resp'.val >= 1)
            => /\ IndexInitialized'
               /\ IndexCount = 0 => IndexCount' = resp'.val
       /\ resp'.op \in SearchOps
            => Len(SearchResult(resp')) <= Min(resp'.val.k, IndexCount)]_vars

\* poc-03 holds one chunk and a search of two has returned one
C13_Witness ==
    /\ poc = "p03"
    /\ resp.op = "similarity_search"
    /\ resp.val.k = 2
    /\ IndexInitialized
    /\ IndexCount = 1
    /\ Len(resp.val.results) = 1

\* C14: the index grows only by append. An add of n chunks raises the
\* count by exactly n and keeps the chunks held before, in place; an add of
\* none leaves the index as it was; no call but clear() lowers the count or
\* removes a chunk; delete_document of poc-06 leaves the count unchanged
C14_AppendOnly ==
    [][/\ resp'.op = "add_documents"
            => /\ IndexCount' = IndexCount + resp'.val
               /\ resp'.val = 0
                    => <<vectorstore, pv_vectorstore>>' = <<vectorstore, pv_vectorstore>>
       /\ resp'.op /= "clear"
            => /\ IndexCount' >= IndexCount
               /\ SubSeq(IndexChunks', 1, IndexCount) = IndexChunks
       /\ resp'.op = "delete_document" => IndexCount' = IndexCount]_vars

\* poc-06 has deleted a registered document and still counts its chunks
C14_Witness ==
    /\ poc = "p06"
    /\ resp.op = "delete_document"
    /\ resp.val = TRUE
    /\ document_registry = EmptyDict
    /\ IndexCount = 3

\* C15: in the managers that persist (poc-03, both poc-06), when
\* add_documents returns after adding n > 0 chunks the index saved under the
\* path equals the index in memory; and a new manager constructed on the
\* path counts as many chunks as the manager before it did
C15_Persisted ==
    [][poc /= "p7v"
          => /\ (resp'.op = "add_documents" /\ resp'.val > 0)
                  => /\ pv_disk'.exists
                     /\ pv_disk'.index = pv_vectorstore'
             /\ resp'.op = "restart"
                  => /\ resp'.val.document_count = IndexCount
                     /\ IndexCount' = IndexCount]_vars

\* poc-03 was started again after two adds and counts their three chunks
C15_Witness ==
    /\ poc = "p03"
    /\ resp.op = "restart"
    /\ resp.val.document_count = 3
    /\ pv_disk.exists
    /\ pv_disk.index = pv_vectorstore
    /\ IndexCount = 3

\* C16: clear() drops the index in memory and removes the directory saved
\* under the path. Afterwards is_initialized() is false, the count is 0, a
\* search returns the empty list and a new manager constructed on the path
\* loads no index; an add that follows the clear starts an index that holds
\* the added chunks and nothing else
C16_Clear ==
    [][/\ resp'.op = "clear"
            => /\ ~IndexInitialized'
               /\ IndexCount' = 0
               /\ ~pv_disk'.exists
               /\ pv_load(pv_disk') = NoStore
               /\ \A k \in TopKs, restricted \in BOOLEAN :
                     /\ vs_similarity_search(vectorstore', k) = {<<>>}
                     /\ pv_similarity_search(pv_vectorstore', k, restricted) = {<<>>}
                     /\ t6_similarity_search(pv_vectorstore', k, restricted) = {<<>>}
               /\ \A k \in TopKs, filter_metadata \in Filters :
                     SearchPlaces(pv_vectorstore', k, filter_metadata) = {<<>>}
       /\ (resp.op = "clear" /\ resp'.op = "add_documents")
            => /\ IndexCount' = resp'.val
               /\ poc = "p7v" => IndexChunks' \in ChunkLists
               /\ poc \in PvPocs => IndexChunks' \in Uploads
               /\ poc = "p06"
                    => \E upload \in DocumentUploads :
                          IndexChunks' = Tagged(upload.documents, upload.document_id)
               /\ poc /= "p7v" => pv_disk'.index = pv_vectorstore']_vars

\* the poc-06 multi-document-types manager was cleared while its directory
\* held a saved index, and nothing is left in memory or under the path
C16_Witness ==
    /\ poc = "p6t"
    /\ resp.op = "clear"
    /\ resp.val.files_removed
    /\ ~pv_disk.exists
    /\ pv_vectorstore = NoStore

\* C17: a search with a filter fetches the 3*k nearest chunks, keeps those
\* whose metadata matches every key of the filter (a scalar filter value by
\* equality, a list filter value when the metadata value is a list that
\* shares an element with it, a missing key never), in the order fetched,
\* and returns the first k of them: every chunk returned matches and at most
\* k are returned. Checked for EnhancedVectorStoreManager (poc-06) and for
\* ConversationalRAGChain (poc-07 memory)
C17_FilteredSearch ==
    [][(/\ \/ (poc = "p06" /\ resp'.op = "search")
            \/ (poc = "crag" /\ resp'.op = "ask" /\ resp'.val.retrieval_used)
        /\ pv_vectorstore.built
        /\ Truthy(resp'.val.filter_metadata))
          => LET wanted == resp'.val.filter_metadata
                 k      == resp'.val.k
                 places == resp'.val.places
                 Items(v) == {v.items[n] : n \in DOMAIN v.items}
                 Matches(place) ==
                     LET metadata == pv_vectorstore.chunks[place].metadata
                     IN  \A key \in DOMAIN wanted :
                            /\ key \in DOMAIN metadata
                            /\ \/ /\ wanted[key].kind = "scalar"
                                  /\ metadata[key] = wanted[key]
                               \/ /\ wanted[key].kind = "list"
                                  /\ metadata[key].kind = "list"
                                  /\ Items(wanted[key]) \cap Items(metadata[key]) /= {}
             IN  /\ Len(places) <= k
                 /\ \A n \in DOMAIN places : Matches(places[n])
                 /\ \E order \in NearestOrders(pv_vectorstore, 3 * k) :
                        places = PyPrefix(SelectSeq(order, Matches), k)]_vars

\* poc-06 holds four chunks, two of them with tags that share an element
\* with the list asked for, and a search for one has returned one of them
C17_Witness ==
    /\ poc = "p06"
    /\ resp.op = "search"
    /\ resp.val.k = 1
    /\ resp.val.filter_metadata = [tags |-> List(<<"c", "a">>)]
    /\ IndexCount = 4
    /\ Cardinality({n \in 1..4 :
            IndexChunks[n].metadata.file_type = Scalar("pdf")}) = 2
    /\ Len(resp.val.places) = 1
    /\ IndexChunks[resp.val.places[1]].metadata.tags = List(<<"a", "b">>)

\* C18: whenever retrieval yields no chunk, the responder returns its fixed
\* message and an empty list of citations and does not raise, whether it
\* answers from the template or by the LLM: RetrievalChain.answer (poc-07
\* with-memory), ConversationalRAGChain.ask (poc-07 memory) and
\* MultiDocumentQAChain.ask (poc-06)
C18_NoChunks ==
    [][/\ (poc = "p7v" /\ resp'.op = "answer" /\ resp'.val.retrieved = 0)
            => /\ resp'.status /= 500
               /\ resp'.val.answer = InsufficientContext
               /\ resp'.val.citations = <<>>
       /\ (poc = "crag" /\ resp'.op = "ask" /\ resp'.val.retrieval_used
              /\ resp'.val.places = <<>>)
            => /\ resp'.status /= 500
               /\ resp'.val.answer = CouldNotFindDocuments
               /\ resp'.val.sources = <<>>
       /\ (poc = "p06" /\ resp'.op = "ask" /\ resp'.val.retrieved = 0)
            => /\ resp'.val.answer = NoRelevantDocuments
               /\ resp'.val.total_sources = 0]_vars

\* C19 as stated: used_history_turns of a chat response is the number of
\* complete turns stored for the session before the request, capped at
\* max_history_turns; it is 0 for the first chat of a session and at least 1
\* for every follow-up in the session; the history handed to the responder
\* is the stored one, without the request's own message
C19_UsedHistoryTurns ==
    [][(poc = "wm" /\ resp'.op = "chat" /\ resp'.status = 200)
          => LET session_id == resp'.sid
                 stored == IF session_id \in DOMAIN mm_sessions
                           THEN mm_sessions[session_id].messages ELSE <<>>
                 used   == resp'.val.used_history_turns
             IN  /\ used = Min(Len(stored) \div 2, max_history_turns)
                 /\ adds[session_id] = 0 => used = 0
                 /\ adds[session_id] >= 1 => used >= 1
                 /\ mm_get_history(mm_sessions, session_id).list = stored
                 /\ Len(stored) <= Len(log[session_id])
                 /\ Len(log'[session_id]) = Len(log[session_id]) + 2]_vars

\* C19 amended: the same, a follow-up reporting at least 1 when
\* max_history_turns is at least 1 (with a limit of 0 the cap makes it 0)
C19_UsedHistoryTurnsKept ==
    [][(poc = "wm" /\ resp'.op = "chat" /\ resp'.status = 200)
          => LET session_id == resp'.sid
                 stored == IF session_id \in DOMAIN mm_sessions
                           THEN mm_sessions[session_id].messages ELSE <<>>
                 used   == resp'.val.used_history_turns
             IN  /\ used = Min(Len(stored) \div 2, max_history_turns)
                 /\ adds[session_id] = 0 => used = 0
                 /\ (adds[session_id] >= 1 /\ max_history_turns >= 1) => used >= 1
                 /\ mm_get_history(mm_sessions, session_id).list = stored
                 /\ Len(stored) <= Len(log[session_id])
                 /\ Len(log'[session_id]) = Len(log[session_id]) + 2]_vars

\* a second chat in a session that keeps one turn has reported one turn used
C19_Witness ==
    /\ poc = "wm"
    /\ max_history_turns = 1
    /\ resp.op = "chat"
    /\ resp.status = 200
    /\ adds[resp.sid] = 2
    /\ resp.val.used_history_turns = 1

\* C20: make_query returns the message as it is when the history holds no
\* user message; otherwise the last min(2, n) of the n user messages of the
\* history, oldest first, then the message, joined by newlines. No assistant
\* message is part of the query
C20_MakeQuery ==
    [][resp'.op = "make_query"
          => LET history == resp'.val.history
                 message == resp'.val.message
                 query   == resp'.val.query
                 users   == {i \in DOMAIN history : history[i].role = "user"}
                 last    == CHOOSE i \in users : \A j \in users : j <= i
                 before  == CHOOSE i \in users \ {last} :
                                \A j \in users \ {last} : j <= i
             IN  CASE Cardinality(users) = 0 -> query = message
                   [] Cardinality(users) = 1 ->
                        query = history[last].content \o "\n" \o message
                   [] OTHER ->
                        query = history[before].content \o "\n"
                                   \o history[last].content \o "\n" \o message]_vars

\* make_query was given three turns and a message, and returned the last
\* two questions and the message
C20_Witness ==
    /\ poc = "p7v"
    /\ resp.op = "make_query"
    /\ resp.val.message = "q2"
    /\ resp.val.history = <<Msg("user", "q1"), Msg("assistant", "llm"),
                            Msg("user", "q2"), Msg("assistant", "llm"),
                            Msg("user", "q1"), Msg("assistant", "llm")>>
    /\ resp.val.query = "q2\nq1\nq2"

P5Completed == {t \in Requests : threads[t].pc # "done" /\ threads'[t].pc = "done"}

\* C22: served from the event loop, the metrics middleware of poc-05 records
\* every completed request exactly once: a step that completes a request
\* adds 1 to total_requests, and 1 to error_count exactly when the status of
\* the response is >= 400 or the handler raised, and no other step changes
\* the metrics; total_requests is the number of completed requests and
\* 0 <= error_count <= total_requests in every state; GET /metrics with
\* total_requests = 0 reports an average of 0
C22_RecordedOnce ==
    /\ [](poc = "p05"
            => /\ metrics.total_requests =
                     Cardinality({t \in Requests : threads[t].pc = "done"})
               /\ 0 <= metrics.error_count
               /\ metrics.error_count <= metrics.total_requests
               /\ \A t \in Requests :
                     (threads[t].endpoint = "/metrics"
                        /\ threads[t].body.total_requests = 0)
                       => threads[t].body.avg_response_time_ms = 0)
    /\ [][poc = "p05"
            => /\ metrics'.total_requests =
                     metrics.total_requests + Cardinality(P5Completed)
               /\ metrics'.error_count =
                     metrics.error_count
                       + Cardinality({t \in P5Completed :
                                         \/ threads[t].raised
                                         \/ threads[t].status_code >= 400})]_vars

\* GET /metrics reported no request and an average of 0, and was counted; a
\* request answered with 500 was counted as a request and as an error
C22_Witness ==
    /\ poc = "p05"
    /\ threads[1].pc = "done"
    /\ threads[1].endpoint = "/metrics"
    /\ threads[1].body.total_requests = 0
    /\ threads[1].body.avg_response_time_ms = 0
    /\ threads[2].pc = "done"
    /\ threads[2].status_code = 500
    /\ metrics.total_requests = 2
    /\ metrics.error_count = 1

\* C23: when the requests issued from parallel threads have all completed,
\* total_requests has increased by at least their number: no increment of
\* the counters is lost under any interleaving of record_request calls
C23_NoLostUpdate ==
    (poc = "p5t" /\ \A t \in Requests : threads[t].pc = "done")
        => metrics.total_requests >= MaxRequests

\* C29: an execute_task call of poc-08 that passes None for max_iterations
\* (for verbose) runs the agent with the configured max_iterations (the
\* configured agent_verbose), whatever overrides earlier calls passed
C29_OverridePerCall ==
    [][resp'.op = "execute_task"
          => /\ resp'.val.max_iterations.is_none
                  => resp'.val.ran_with.max_iterations
                        = agent_settings.max_iterations
             /\ resp'.val.verbose.is_none
                  => resp'.val.ran_with.verbose
                        = agent_settings.agent_verbose]_vars

\* C30: execute_task of poc-08 returns a response whatever the agent does.
\* When the run raises, success is false, steps is empty, total_steps is 0
\* and the result is "Error: " followed by the text of the exception. When
\* it returns, success is true, total_steps is the number of steps returned,
\* and step i of the response has step_number i and is the i-th step the
\* agent took
C30_TaskResponse ==
    [][resp'.op = "execute_task"
          => LET r    == resp'.val.response
                 o    == resp'.val.outcome
                 took == IF o.has_steps THEN o.intermediate_steps ELSE <<>>
             IN  /\ o.raises
                      => /\ ~r.success
                         /\ r.steps = <<>>
                         /\ r.total_steps = 0
                         /\ r.result = "Error: " \o AgentFailure
                 /\ ~o.raises
                      => /\ r.success
                         /\ r.total_steps = Len(r.steps)
                         /\ Len(r.steps) = Len(took)
                         /\ \A i \in 1..Len(r.steps) :
                               /\ r.steps[i].step_number = i
                               /\ r.steps[i].action = took[i].tool]_vars

\* a run of two steps with different tools was reported in its order
C30_Witness ==
    /\ poc = "p08"
    /\ resp.op = "execute_task"
    /\ resp.val.response.success
    /\ resp.val.response.total_steps = 2
    /\ resp.val.response.steps[1].action = "get_current_time"
    /\ resp.val.response.steps[2].action = "calculator"
    /\ resp.val.response.steps[2].step_number = 2

\* C24: ConversationalRAGEngine._retrieve returns only documents that share
\* a term with the question, in non-increasing order of score, at most top_k
\* of them; it returns an empty list when every score is zero, and for every
\* top_k <= 0 however many documents match
C24_Retrieve ==
    [][resp'.op = "_retrieve"
          => LET question == resp'.val.question
                 top_k    == resp'.val.top_k
                 context  == resp'.val.context
             IN  /\ \A i \in DOMAIN context : Score(question, context[i]) > 0
                 /\ \A i, j \in DOMAIN context :
                       i < j => Score(question, context[i])
                                   >= Score(question, context[j])
                 /\ top_k > 0 => Len(context) <= top_k
                 /\ (\A i \in DOMAIN eng_documents :
                        Score(question, eng_documents[i]) = 0)
                      => context = <<>>
                 /\ top_k <= 0 => context = <<>>]_vars

\* C25: a POST /chat of the poc-07 memory variant that fails inside
\* rag_chain.ask (500) leaves the history of the session as it was before
\* the request, and after every request each stored user message is
\* followed by its assistant reply
C25_FailedChat ==
    /\ [][(poc = "sm" /\ resp'.op = "chat" /\ resp'.status = 500)
             => sm_sessions'[resp'.sid].messages
                   = sm_sessions[resp'.sid].messages]_vars
    /\ [](poc = "sm"
            => \A sid \in DOMAIN sm_sessions :
                  LET messages == sm_sessions[sid].messages
                  IN  \A i \in DOMAIN messages :
                         messages[i].role = "user"
                           => /\ i < Len(messages)
                              /\ messages[i + 1].role = "assistant")

\* C27: in poc-02 the number of stored sessions never exceeds max_sessions,
\* and get_or_create_session never hands back the memory of a session whose
\* last activity is older than session_timeout_minutes: after a chat in
\* such a session the memory holds the messages of that chat at most
C27_SessionLimit ==
    /\ [](poc = "p02" => Cardinality(DOMAIN p2_sessions) <= max_sessions)
    /\ [][(/\ poc = "p02"
           /\ resp'.op = "chat"
           /\ resp'.sid \in DOMAIN p2_sessions
           /\ now - p2_sessions[resp'.sid].last_activity > session_timeout_minutes)
             => Len(p2_sessions'[resp'.sid].memory) <= 2]_vars

\* C26: in the poc-06 EnhancedVectorStoreManager the registry agrees with the
\* index after any add_documents, delete_document and clear calls: the
\* chunk_count values of the registry add up to get_document_count(), and
\* every chunk of the index carries a document_id that is in the registry
C26_RegistryConsistent ==
    poc = "p06"
      => /\ SumOver([d \in DOMAIN document_registry |->
                        document_registry[d].chunk_count],
                    DOMAIN document_registry)
              = pv_get_document_count(pv_vectorstore)
         /\ \A i \in DOMAIN IndexChunks :
               \E d \in DOMAIN document_registry :
                  IndexChunks[i].metadata.document_id = Scalar(d)

\* the chunk_id values DocumentProcessor assigns
ProcessorChunkIds ==
    {"doc" \o ToString(i) \o "_chunk" \o ToString(j) :
        i \in 0..MaxChunks, j \in 0..MaxChunks}

\* C28: in the with-memory variant, after any POST /documents/index
\* requests, the chunk_id values of the chunks in the index are pairwise
\* distinct, and the source and chunk_id of each chunk, which a citation
\* copies, are the source of its document and the chunk_id the processor
\* assigned, also for documents that carry metadata keys of their own
C28_ChunkIds ==
    poc = "wm"
      => /\ \A i, j \in DOMAIN vectorstore.chunks :
               i # j => vectorstore.chunks[i].chunk_id # vectorstore.chunks[j].chunk_id
         /\ \A i \in DOMAIN vectorstore.chunks :
               /\ vectorstore.chunks[i].chunk_id \in ProcessorChunkIds
               /\ vectorstore.chunks[i].source = "src"

====
